---------------------------- MODULE Spec2Model ----------------------------
(***************************************************************************)
(* Model of the template normalisation pipeline of the movie-games server  *)
(* (server/src/template.rs): normalize_character_ids,                      *)
(* normalize_template_nodes, normalize_template_endings,                   *)
(* sanitize_template_graph and sanitize_affinity_effects, applied to a     *)
(* MovieTemplate (server/src/types.rs).                                    *)
(*                                                                         *)
(* Strings are TLA+ strings drawn from finite universes.  String           *)
(* operations of the code (trim, comparison for sort, prefix stripping)    *)
(* are tables over those universes.  Option<T> is a set with at most one   *)
(* element.  A HashMap is a function; wherever the code iterates a HashMap *)
(* and the order can matter, the order is a nondeterministic choice.       *)
(***************************************************************************)
EXTENDS Integers, Sequences, FiniteSets, TLC

VARIABLES
    op,         \* the operation under study (a stage alone, or a handler)
    input,      \* the template as it arrived
    tpl,        \* the template, mutated in place by the stages
    pc,         \* index of the next stage of Stages(op)
    run,        \* 1 on the arrived template, 2 on the result of run 1
    first,      \* the result of run 1 (the arrived template during run 1)
    picked,     \* what pick_protagonist_name returned in the last
                \* sanitize_affinity_effects (None before)
    allow,      \* the request's character list (payload.characters), an
                \* Option; None where the operation takes none
    work        \* the local variables of a loop that is run step by step
                \* (None outside such a loop)

vars == <<op, input, tpl, pc, run, first, picked, allow, work>>

----------------------------------------------------------------------------
(* Option<T> *)

None == {}

Some(x) == {x}

IsSome(o) == o # {}

Unwrap(o) == CHOOSE x \in o : TRUE

----------------------------------------------------------------------------
(* Strings *)

\* str::trim on the strings of the model: leading and trailing white space
\* is removed; every other string of the model has none.
Trim(s) ==
    CASE s = " "     -> ""
      [] s = " a "   -> "a"
      [] s = " END " -> "END"
      [] s = "x "    -> "x"
      [] s = "go "   -> "go"
      [] s = " ann " -> "ann"
      [] s = " c1 "  -> "c1"
      [] s = " good " -> "good"
      [] OTHER       -> s

\* Byte-wise (Ord for String) order of the strings that the code sorts:
\* ' ' < digits < upper case < '_' < lower case.
StrOrder ==
    << "", " ", " END ", " a ", " good ", "END", "GOOD", "a", "a_2", "a_3",
       "a_4", "a_5", "a_6", "b",
       "bad_end", "c", "e1", "e2", "e3", "e4", "ending_bad", "ending_good",
       "ending_neutral", "go", "good", "n_a", "n_a_2", "n_n_a", "n_start",
       "no", "node_a", "node_n_a", "node_start",
       "start", "start_2", "start_3", "zz" >>

Rank(s) == CHOOSE i \in 1..Len(StrOrder) : StrOrder[i] = s

StrLess(s, t) == Rank(s) < Rank(t)

\* Vec::sort on a set of distinct strings: the ascending sequence.
RECURSIVE SortKeys(_)
SortKeys(S) ==
    IF S = {} THEN <<>>
    ELSE LET m == CHOOSE x \in S : \A y \in S : x = y \/ StrLess(x, y)
         IN  <<m>> \o SortKeys(S \ {m})


\* The permutations of a finite set, as sequences: the orders in which a
\* HashMap with these keys may be iterated.
RECURSIVE Perms(_)
Perms(S) ==
    IF S = {} THEN { <<>> }
    ELSE UNION { { <<x>> \o p : p \in Perms(S \ {x}) } : x \in S }

Range(f) == { f[i] : i \in DOMAIN f }

EmptyMap == [k \in {} |-> {}]

\* HashMap::remove of a set of keys
MapWithout(m, ks) == [k \in (DOMAIN m) \ ks |-> m[k]]

\* HashMap::insert
MapPut(m, k, v) == [x \in (DOMAIN m) \cup {k} |-> IF x = k THEN v ELSE m[x]]

----------------------------------------------------------------------------
(* sanitize_template_graph *)

\* The key substituted in Pass B for self-loops and back edges.
EndingNeutralKey(t) ==
    IF "ending_neutral" \in DOMAIN t.endings THEN "ending_neutral"
    ELSE IF "ending_bad" \in DOMAIN t.endings THEN "ending_bad"
    ELSE IF "ending_good" \in DOMAIN t.endings THEN "ending_good"
    ELSE "END"

\* keys.sort(), then "start" (else "n_start") moved to the front.
EntryFirst(S) ==
    LET sorted == SortKeys(S)
    IN  IF "start" \in S THEN <<"start">> \o SortKeys(S \ {"start"})
        ELSE IF "n_start" \in S THEN <<"n_start">> \o SortKeys(S \ {"n_start"})
        ELSE sorted

\* format!("{}→{}", text.trim(), next_node_id.trim()) as a pair.  No string
\* of the model holds "→" or "|", and no choice text is a prefix of another,
\* so pairs compare (equal, less) exactly as the formatted strings do.
ChoicePart(c) == <<Trim(c.text), Trim(c.next_node_id)>>

PartLeq(p, q) ==
    \/ StrLess(p[1], q[1])
    \/ p[1] = q[1] /\ (p[2] = q[2] \/ StrLess(p[2], q[2]))

\* insertion of one element into a sorted sequence
RECURSIVE InsertPart(_, _)
InsertPart(p, s) ==
    IF s = <<>> THEN <<p>>
    ELSE IF PartLeq(p, Head(s)) THEN <<p>> \o s
    ELSE <<Head(s)>> \o InsertPart(p, Tail(s))

\* cparts.sort(): the head inserted into the sorted tail.  The sorted tail
\* is bound by CHOOSE so that it is computed once.
RECURSIVE SortParts(_)
SortParts(s) ==
    IF s = <<>> THEN <<>>
    ELSE CHOOSE r \in { InsertPart(Head(s), t) : t \in {SortParts(Tail(s))} } :
           TRUE

\* format!("{}||{}", text, cparts.join("|")) as a pair
Signature(node) ==
    << Trim(node.content),
       SortParts([i \in 1..Len(node.choices) |-> ChoicePart(node.choices[i])]) >>

\* The loop over keys of Pass A: acc.owner is signature_owner, acc.redirect
\* is redirect.  The entry node ("start" or "n_start") is skipped; the code
\* inserts its key with owner "" into signature_owner, an entry no lookup can
\* hit because every signature contains "||".
RECURSIVE CollectDuplicates(_, _, _)
CollectDuplicates(nodes, keys, acc) ==
    IF keys = <<>> THEN acc
    ELSE
      LET node_id == Head(keys)
          sig == Signature(nodes[node_id])
      IN  IF node_id = "start" \/ node_id = "n_start"
          THEN CollectDuplicates(nodes, Tail(keys), acc)
          ELSE IF sig \in DOMAIN acc.owner
          THEN CollectDuplicates(nodes, Tail(keys),
                 [acc EXCEPT !.redirect = MapPut(@, node_id, acc.owner[sig])])
          ELSE CollectDuplicates(nodes, Tail(keys),
                 [acc EXCEPT !.owner = MapPut(@, sig, node_id)])

Redirect(t) ==
    CollectDuplicates(t.nodes, EntryFirst(DOMAIN t.nodes),
                      [owner |-> EmptyMap, redirect |-> EmptyMap]).redirect

\* choice.next_node_id = redirect[choice.next_node_id] where present
RedirectChoices(nodes, redirect) ==
    [k \in DOMAIN nodes |->
       [nodes[k] EXCEPT !.choices =
          [i \in 1..Len(@) |->
             IF @[i].next_node_id \in DOMAIN redirect
             THEN [@[i] EXCEPT !.next_node_id = redirect[@]]
             ELSE @[i]]]]

\* mutant of TransferMarkers: the marker of the owner is overwritten
RECURSIVE TransferMarkersOverwrite(_, _, _)
TransferMarkersOverwrite(nodes, redirect, ord) ==
    IF ord = <<>> THEN nodes
    ELSE
      LET from == Head(ord)
          to == redirect[from]
          from_ending_key == nodes[from].ending_key
      IN  IF IsSome(from_ending_key)
          THEN TransferMarkersOverwrite(
                 [nodes EXCEPT ![to].ending_key = from_ending_key],
                 redirect, Tail(ord))
          ELSE TransferMarkersOverwrite(nodes, redirect, Tail(ord))

\* for (from, to) in redirect.iter(): the owner takes the marker of a removed
\* node if it has none.  ord is the iteration order of redirect.
RECURSIVE TransferMarkers(_, _, _)
TransferMarkers(nodes, redirect, ord) ==
    IF ord = <<>> THEN nodes
    ELSE
      LET from == Head(ord)
          to == redirect[from]
          from_ending_key == nodes[from].ending_key
      IN  IF IsSome(from_ending_key) /\ ~IsSome(nodes[to].ending_key)
          THEN TransferMarkers([nodes EXCEPT ![to].ending_key = from_ending_key],
                               redirect, Tail(ord))
          ELSE TransferMarkers(nodes, redirect, Tail(ord))

\* Pass A: duplicate collapse
PassA(nodes, redirect, ord) ==
    IF DOMAIN redirect = {} THEN nodes
    ELSE MapWithout(TransferMarkers(RedirectChoices(nodes, redirect), redirect, ord),
                    DOMAIN redirect)

\* mutant of RewriteTarget: every choice of node cur is set to the fallback
RewriteTargetAll(nodes, cur, target, fallback) ==
    [nodes EXCEPT ![cur].choices =
       [i \in 1..Len(@) |-> [@[i] EXCEPT !.next_node_id = fallback]]]

\* every choice of node cur that targets `target` is set to the fallback
RewriteTarget(nodes, cur, target, fallback) ==
    [nodes EXCEPT ![cur].choices =
       [i \in 1..Len(@) |->
          IF @[i].next_node_id = target
          THEN [@[i] EXCEPT !.next_node_id = fallback]
          ELSE @[i]]]

\* fn dfs: st is [nodes, state]; state maps a key to 1 (in progress) or 2
\* (finished), a key not in its domain is unvisited (0).
RECURSIVE Dfs(_, _, _)
RECURSIVE DfsLoop(_, _, _, _)
DfsLoop(cur, outgoing, st, fallback) ==
    IF outgoing = <<>> THEN st
    ELSE
      LET next == Head(outgoing)
          rest == Tail(outgoing)
      IN  IF next = cur
          THEN DfsLoop(cur, rest,
                 [st EXCEPT !.nodes = RewriteTarget(@, cur, cur, fallback)], fallback)
          ELSE IF next \notin DOMAIN st.nodes
          THEN DfsLoop(cur, rest, st, fallback)
          ELSE IF next \in DOMAIN st.state /\ st.state[next] = 1
          THEN DfsLoop(cur, rest,
                 [st EXCEPT !.nodes = RewriteTarget(@, cur, next, fallback)], fallback)
          ELSE IF next \notin DOMAIN st.state
          THEN DfsLoop(cur, rest, Dfs(next, st, fallback), fallback)
          ELSE DfsLoop(cur, rest, st, fallback)

Dfs(cur, st, fallback) ==
    LET entered == [st EXCEPT !.state = MapPut(@, cur, 1)]
        outgoing == [i \in 1..Len(st.nodes[cur].choices) |->
                       st.nodes[cur].choices[i].next_node_id]
        left == DfsLoop(cur, outgoing, entered, fallback)
    IN  [left EXCEPT !.state = MapPut(@, cur, 2)]

\* for id in node_ids { if state[id] == 0 { dfs(id) } }
RECURSIVE DfsAll(_, _, _)
DfsAll(node_ids, st, fallback) ==
    IF node_ids = <<>> THEN st
    ELSE IF Head(node_ids) \in DOMAIN st.state
    THEN DfsAll(Tail(node_ids), st, fallback)
    ELSE DfsAll(Tail(node_ids), Dfs(Head(node_ids), st, fallback), fallback)

\* Pass B: cycle elimination
PassB(nodes, fallback) ==
    DfsAll(EntryFirst(DOMAIN nodes), [nodes |-> nodes, state |-> EmptyMap],
           fallback).nodes

\* The key substituted in Pass C.  first_key is what
\* template.endings.keys().next() returns: some key of a non-empty map.
EndingFallback(t, first_key) ==
    IF EndingNeutralKey(t) \in DOMAIN t.endings THEN EndingNeutralKey(t)
    ELSE IF DOMAIN t.endings # {} THEN first_key
    ELSE "END"

\* the values keys().next() can return; {"END"} stands for None
FirstKeys(t) == IF DOMAIN t.endings = {} THEN {"END"} ELSE DOMAIN t.endings

\* Pass C, reference repair of one choice
RepairChoice(c, node_keys, ending_keys, ending_fallback) ==
    LET to == Trim(c.next_node_id)
    IN  IF to = "" THEN [c EXCEPT !.next_node_id = ending_fallback]
        ELSE IF to = "END" THEN c
        ELSE IF to \in node_keys THEN c
        ELSE IF to \in ending_keys THEN c
        ELSE [c EXCEPT !.next_node_id = ending_fallback]

RepairReferences(nodes, ending_keys, ending_fallback) ==
    [k \in DOMAIN nodes |->
       [nodes[k] EXCEPT !.choices =
          [i \in 1..Len(@) |->
             RepairChoice(@[i], DOMAIN nodes, ending_keys, ending_fallback)]]]

ValidMarker(node, ending_keys) ==
    IsSome(node.ending_key) /\ Unwrap(node.ending_key) \in ending_keys

\* mutant of ClearTerminalChoices: the choices of terminal nodes are kept
ClearTerminalChoicesKept(nodes, ending_keys) == nodes

\* a node whose ending_key names an ending loses its choices
ClearTerminalChoices(nodes, ending_keys) ==
    [k \in DOMAIN nodes |->
       IF ValidMarker(nodes[k], ending_keys)
       THEN [nodes[k] EXCEPT !.choices = <<>>]
       ELSE nodes[k]]

\* a node without choices and without a valid ending_key gets
\* ending_neutral_key, if that is an ending
AssignMarkers(nodes, ending_keys, ending_neutral_key) ==
    [k \in DOMAIN nodes |->
       IF nodes[k].choices # <<>> THEN nodes[k]
       ELSE IF ValidMarker(nodes[k], ending_keys) THEN nodes[k]
       ELSE IF ending_neutral_key \in ending_keys
       THEN [nodes[k] EXCEPT !.ending_key = Some(ending_neutral_key)]
       ELSE nodes[k]]

\* Pass C: reference repair and terminal consistency
PassC(nodes, ending_keys, ending_fallback, ending_neutral_key) ==
    AssignMarkers(
      ClearTerminalChoices(
        RepairReferences(nodes, ending_keys, ending_fallback), ending_keys),
      ending_keys, ending_neutral_key)

\* sanitize_template_graph.  ord: the order in which redirect is iterated;
\* first_key: the key endings.keys().next() returns.
SanitizeTemplateGraph(t, ord, first_key) ==
    IF DOMAIN t.nodes = {} THEN t
    ELSE
      LET ending_neutral_key == EndingNeutralKey(t)
          a == PassA(t.nodes, Redirect(t), ord)
          b == PassB(a, ending_neutral_key)
          c == PassC(b, DOMAIN t.endings, EndingFallback(t, first_key),
                     ending_neutral_key)
      IN  [t EXCEPT !.nodes = c]

\* every result sanitize_template_graph can give on t
SanitizeOutcomes(t) ==
    { SanitizeTemplateGraph(t, ord, fk) :
        ord \in Perms(DOMAIN Redirect(t)), fk \in FirstKeys(t) }

----------------------------------------------------------------------------
(* normalize_template_endings *)

\* the closure canonicalize_key: Some(canonical key) for a known spelling
CanonicalizeKey(k) ==
    LET t == Trim(k)
    IN  IF t \in {"ending_good", "good_end", "end_good", "good", "GOOD"}
        THEN Some("ending_good")
        ELSE IF t \in {"ending_neutral", "neutral_end", "end_neutral", "neutral", "NEUTRAL"}
        THEN Some("ending_neutral")
        ELSE IF t \in {"ending_bad", "bad_end", "end_bad", "bad", "BAD"}
        THEN Some("ending_bad")
        ELSE None

\* Orders in which a HashMap with key set S may be iterated: any subset of the
\* keys first.  The loops below depend on the order only through which keys
\* come first (the first alias of a canonical key, the first keys kept), so
\* these orders give every result the loops can give.
IterOrders(S) == { SortKeys(X) \o SortKeys(S \ X) : X \in SUBSET S }

\* mutant of MoveAliases: an alias entry is left in place when the canonical
\* key is present
RECURSIVE MoveAliasesKeep(_, _)
MoveAliasesKeep(endings, it) ==
    IF it = <<>> THEN endings
    ELSE
      LET from == Head(it)
          canonical == CanonicalizeKey(from)
      IN  IF canonical = None \/ Unwrap(canonical) = from
          THEN MoveAliasesKeep(endings, Tail(it))
          ELSE IF Unwrap(canonical) \in DOMAIN endings
          THEN MoveAliasesKeep(endings, Tail(it))
          ELSE MoveAliasesKeep(
                 MapPut(MapWithout(endings, {from}), Unwrap(canonical), endings[from]),
                 Tail(it))

\* for (from, to) in moved: an alias entry is dropped if the canonical key is
\* present, else renamed.  `it` is the order of endings.keys().
RECURSIVE MoveAliases(_, _)
MoveAliases(endings, it) ==
    IF it = <<>> THEN endings
    ELSE
      LET from == Head(it)
          canonical == CanonicalizeKey(from)
      IN  IF canonical = None \/ Unwrap(canonical) = from
          THEN MoveAliases(endings, Tail(it))
          ELSE IF Unwrap(canonical) \in DOMAIN endings
          THEN MoveAliases(MapWithout(endings, {from}), Tail(it))
          ELSE MoveAliases(
                 MapPut(MapWithout(endings, {from}), Unwrap(canonical), endings[from]),
                 Tail(it))

\* every choice target with a known spelling is set to the canonical key
CanonicalizeTargets(nodes) ==
    [k \in DOMAIN nodes |->
       [nodes[k] EXCEPT !.choices =
          [i \in 1..Len(@) |->
             IF CanonicalizeKey(@[i].next_node_id) # None
             THEN [@[i] EXCEPT !.next_node_id = Unwrap(CanonicalizeKey(@))]
             ELSE @[i]]]]

EndingCap == 5

\* mutant of FillKeep: the loop stops one entry late (> for >=)
RECURSIVE FillKeepLate(_, _, _)
FillKeepLate(endings, it, keep) ==
    IF it = <<>> \/ Cardinality(DOMAIN keep) > EndingCap THEN keep
    ELSE IF Head(it) \in DOMAIN keep THEN FillKeepLate(endings, Tail(it), keep)
    ELSE FillKeepLate(endings, Tail(it), MapPut(keep, Head(it), endings[Head(it)]))

\* for (k, v) in template.endings.iter(): fill keep up to EndingCap entries
RECURSIVE FillKeep(_, _, _)
FillKeep(endings, it, keep) ==
    IF it = <<>> \/ Cardinality(DOMAIN keep) >= EndingCap THEN keep
    ELSE IF Head(it) \in DOMAIN keep THEN FillKeep(endings, Tail(it), keep)
    ELSE FillKeep(endings, Tail(it), MapPut(keep, Head(it), endings[Head(it)]))

\* if more than EndingCap endings remain: the canonical ones, then others
CapEndings(endings, it) ==
    IF Cardinality(DOMAIN endings) > EndingCap
    THEN LET canon == {"ending_good", "ending_neutral", "ending_bad"} \cap DOMAIN endings
             keep == [k \in canon |-> endings[k]]
         IN  IF Cardinality(DOMAIN keep) < EndingCap
             THEN FillKeep(endings, it, keep)
             ELSE keep
    ELSE endings

\* normalize_template_endings.  it1: the order of endings.keys() at the start;
\* it2: the order of endings.iter() after the aliases are moved.
NormalizeTemplateEndings(t, it1, it2) ==
    IF DOMAIN t.endings = {} THEN t
    ELSE [t EXCEPT !.endings = CapEndings(MoveAliases(t.endings, it1), it2),
                   !.nodes = CanonicalizeTargets(t.nodes)]

\* every result normalize_template_endings can give on t
NormalizeEndingsOutcomes(t) ==
    UNION { { NormalizeTemplateEndings(t, it1, it2) :
                it2 \in IterOrders(DOMAIN MoveAliases(t.endings, it1)) } :
            it1 \in IterOrders(DOMAIN t.endings) }

----------------------------------------------------------------------------
(* sanitize_affinity_effects and pick_protagonist_name *)

\* str::to_lowercase on the keys, roles and names of the model
ToLowercase(s) ==
    CASE s = "Player"      -> "player"
      [] s = "Protagonist" -> "protagonist"
      [] OTHER             -> s

\* str::contains for the tokens the protagonist heuristic looks for.
\* "WO" stands for the reserved self-reference name (U+6211) and "ZHUJUE" for
\* the protagonist marker (U+4E3B U+89D2).  Of the strings of the model,
\* "c_player" contains the token "player" as a proper substring; every other
\* one contains a token only by being that token.
Contains(s, token) ==
    \/ s = token
    \/ s = "c_player" /\ token = "player"

\* the score of the cast entry k -> c, whose trimmed name is name
Score(k, c, name) ==
    LET key == ToLowercase(k)
        role == ToLowercase(c.role)
        name_l == ToLowercase(name)
    IN  (IF Contains(key, "player") \/ Contains(key, "protagonist")
            \/ Contains(key, "main") THEN 5 ELSE 0)
      + (IF Contains(role, "protagonist") \/ Contains(role, "player")
            \/ Contains(role, "main") THEN 6 ELSE 0)
      + (IF name = "WO" \/ Contains(name, "ZHUJUE") THEN 7 ELSE 0)
      + (IF Contains(name_l, "protagonist") \/ Contains(name_l, "player")
            THEN 4 ELSE 0)

\* for (k, c) in chars.iter(), in the order it: best is None or
\* Some(<<score, name>>), replaced only by a strictly greater score
RECURSIVE PickBest(_, _, _)
PickBest(chars, it, best) ==
    IF it = <<>> THEN best
    ELSE LET k == Head(it)
             name == Trim(chars[k].name)
             score == Score(k, chars[k], name)
         IN  IF name = "" THEN PickBest(chars, Tail(it), best)
             ELSE IF IsSome(best) /\ Unwrap(best)[1] >= score
                  THEN PickBest(chars, Tail(it), best)
             ELSE PickBest(chars, Tail(it), Some(<<score, name>>))

PickProtagonistName(chars, it) ==
    IF DOMAIN chars = {} THEN None
    ELSE LET best == PickBest(chars, it, None)
         IN  IF IsSome(best) THEN Some(Unwrap(best)[2]) ELSE None

\* id_to_name: for c in template.characters.values(), in the order it; a
\* later entry with the same trimmed id replaces an earlier one
RECURSIVE IdToName(_, _, _)
IdToName(chars, it, acc) ==
    IF it = <<>> THEN acc
    ELSE LET id == Trim(chars[Head(it)].id)
             name == Trim(chars[Head(it)].name)
         IN  IF id # "" /\ name # ""
             THEN IdToName(chars, Tail(it), MapPut(acc, id, name))
             ELSE IdToName(chars, Tail(it), acc)

\* id_to_name.get(&v).cloned().unwrap_or(v)
Resolve(id_to_name, v) ==
    IF v \in DOMAIN id_to_name THEN id_to_name[v] ELSE v

\* allowed: the node's person list, trimmed, blanks dropped, resolved
Allowed(node, id_to_name) ==
    IF node.characters = None THEN {}
    ELSE LET list == Unwrap(node.characters)
         IN  { Resolve(id_to_name, Trim(list[j])) :
                 j \in { i \in 1..Len(list) : Trim(list[i]) # "" } }

DeltaMin == -20

DeltaMax == 20

\* mutant of Clamp: only the upper bound is applied
ClampAbove(d, lo, hi) == IF d > hi THEN hi ELSE d

\* i32::clamp
Clamp(d, lo, hi) == IF d < lo THEN lo ELSE IF d > hi THEN hi ELSE d

\* mutant of SanitizeEffect: the protagonist test is left out
SanitizeEffectAnyTarget(effect, id_to_name, protagonist, allowed) ==
    LET raw == Trim(effect.character_id)
        resolved == Resolve(id_to_name, raw)
    IN  IF raw = "" THEN None
        ELSE IF resolved \notin allowed THEN None
        ELSE Some([character_id |-> resolved,
                   delta |-> Clamp(effect.delta, DeltaMin, DeltaMax)])

\* the body of the loop over node.choices for a choice that has an effect:
\* the effect the choice is left with
SanitizeEffect(effect, id_to_name, protagonist, allowed) ==
    LET raw == Trim(effect.character_id)
        resolved == Resolve(id_to_name, raw)
    IN  IF raw = "" THEN None
        ELSE IF IsSome(protagonist) /\ Unwrap(protagonist) = resolved THEN None
        ELSE IF resolved \notin allowed THEN None
        ELSE Some([character_id |-> resolved,
                   delta |-> Clamp(effect.delta, DeltaMin, DeltaMax)])

SanitizeChoices(node, id_to_name, protagonist) ==
    LET allowed == Allowed(node, id_to_name)
    IN  [node EXCEPT !.choices =
           [i \in 1..Len(node.choices) |->
              IF node.choices[i].affinity_effect = None THEN node.choices[i]
              ELSE [node.choices[i] EXCEPT !.affinity_effect =
                      SanitizeEffect(Unwrap(node.choices[i].affinity_effect),
                                     id_to_name, protagonist, allowed)]]]

\* it: the iteration order of template.characters
SanitizeAffinityEffects(t, it) ==
    IF DOMAIN t.nodes = {} THEN t
    ELSE LET id_to_name == IdToName(t.characters, it, EmptyMap)
             protagonist == PickProtagonistName(t.characters, it)
         IN  [t EXCEPT !.nodes =
                [k \in DOMAIN t.nodes |->
                   SanitizeChoices(t.nodes[k], id_to_name, protagonist)]]

----------------------------------------------------------------------------
(* normalize_character_ids and normalize_template_nodes *)

\* for (k, c) in template.characters.iter(), in the order it: the entry is
\* re-keyed by its name, else its id, else its key, and its id is set to the
\* new key; a later entry with the same new key replaces an earlier one
\* mutant of RekeyCharacters: the id of an entry is left as it was
RECURSIVE RekeyCharactersKeepId(_, _, _)
RekeyCharactersKeepId(chars, it, acc) ==
    IF it = <<>> THEN acc
    ELSE LET k == Head(it)
             c == chars[k]
             key == IF c.name # "" THEN c.name
                    ELSE IF c.id # "" THEN c.id
                    ELSE k
         IN  RekeyCharactersKeepId(chars, Tail(it), MapPut(acc, key, c))

RECURSIVE RekeyCharacters(_, _, _)
RekeyCharacters(chars, it, acc) ==
    IF it = <<>> THEN acc
    ELSE LET k == Head(it)
             c == chars[k]
             key == IF c.name # "" THEN c.name
                    ELSE IF c.id # "" THEN c.id
                    ELSE k
         IN  RekeyCharacters(chars, Tail(it),
                             MapPut(acc, key, [c EXCEPT !.id = key]))

NormalizeCharacterIds(t, it) ==
    [t EXCEPT !.characters = RekeyCharacters(t.characters, it, EmptyMap)]

\* str::strip_prefix("n_"), else str::strip_prefix("node_"), else the key
StripPrefix(k) ==
    CASE k = "n_a"    -> "a"
      [] k = "n_n_a"  -> "n_a"
      [] k = "node_a" -> "a"
      [] k = "node_n_a" -> "n_a"
      [] k = "n_a_2"  -> "a_2"
      [] k = "n_start" -> "start"
      [] k = "node_start" -> "start"
      [] OTHER        -> k

NewKey(old_key) ==
    IF old_key = "start" \/ old_key = "n_start" THEN "start"
    ELSE StripPrefix(old_key)

\* format!("{}_{}", new_key, i)
Suffixed(new_key, i) ==
    CASE new_key = "a" /\ i = 2     -> "a_2"
      [] new_key = "a" /\ i = 3     -> "a_3"
      [] new_key = "a" /\ i = 4     -> "a_4"
      [] new_key = "a" /\ i = 5     -> "a_5"
      [] new_key = "a" /\ i = 6     -> "a_6"
      [] new_key = "start" /\ i = 2 -> "start_2"
      [] new_key = "start" /\ i = 3 -> "start_3"
      [] new_key = "n_a" /\ i = 2   -> "n_a_2"

\* mutant of FinalKey: one suffix is tried, without looking whether it is
\* used
FinalKeyOnce(new_key, final_key, i, used) ==
    IF final_key \in used THEN Suffixed(new_key, i) ELSE final_key

\* while used.contains_key(&final_key): the first of new_key, new_key_2,
\* new_key_3, ... that is not used, starting at final_key with next suffix i
RECURSIVE FinalKey(_, _, _, _)
FinalKey(new_key, final_key, i, used) ==
    IF final_key \in used
    THEN FinalKey(new_key, Suffixed(new_key, i), i + 1, used)
    ELSE final_key

\* for old_key in keys (sorted): the mapping of the keys that change
RECURSIVE KeyMapping(_, _, _)
KeyMapping(keys, used, mapping) ==
    IF keys = <<>> THEN mapping
    ELSE LET old_key == Head(keys)
             final_key == FinalKey(NewKey(old_key), NewKey(old_key), 2, used)
         IN  KeyMapping(Tail(keys), used \cup {final_key},
                        IF final_key # old_key
                        THEN MapPut(mapping, old_key, final_key)
                        ELSE mapping)

\* mapping.get(k).unwrap_or(k)
Mapped(mapping, k) == IF k \in DOMAIN mapping THEN mapping[k] ELSE k

\* mutant of RenameNode: the choice targets are left as they were
RenameNodeOnly(node, old_key, mapping) ==
    [node EXCEPT
       !.id = IF @ = "" \/ @ = old_key THEN Mapped(mapping, old_key) ELSE @]

\* the node stored under old_key, as rebuilt under its new key
RenameNode(node, old_key, mapping) ==
    [node EXCEPT
       !.id = IF @ = "" \/ @ = old_key THEN Mapped(mapping, old_key) ELSE @,
       !.choices = [i \in 1..Len(@) |->
                      [@[i] EXCEPT !.next_node_id = Mapped(mapping, @)]]]

\* what follows the loop over the keys: if no key changes the empty ids are
\* filled, else the node map is rebuilt under the new keys
RebuildNodes(t, mapping) ==
    IF DOMAIN mapping = {}
    THEN [t EXCEPT !.nodes =
            [k \in DOMAIN t.nodes |->
               [t.nodes[k] EXCEPT !.id = IF @ = "" THEN k ELSE @]]]
    ELSE [t EXCEPT !.nodes =
            [k \in { Mapped(mapping, o) : o \in DOMAIN t.nodes } |->
               LET old_key == CHOOSE o \in DOMAIN t.nodes :
                                       Mapped(mapping, o) = k
               IN  RenameNode(t.nodes[old_key], old_key, mapping)]]

NormalizeTemplateNodes(t) ==
    IF DOMAIN t.nodes = {} THEN t
    ELSE RebuildNodes(t, KeyMapping(SortKeys(DOMAIN t.nodes), {}, EmptyMap))

----------------------------------------------------------------------------
(* enforce_character_consistency *)

\* a CharacterInput of the request; its gender is only copied and is left
\* out, as are the gender, age, background and avatar_path of a Character
CharacterInput(name, description, is_main) ==
    [name |-> name, description |-> description, is_main |-> is_main]

\* for input_char in chars: the cast built from the request's characters,
\* keyed by trimmed name; blank names are skipped, a later entry with the
\* same name replaces an earlier one
RECURSIVE CastFromRequest(_, _)
CastFromRequest(chars, out) ==
    IF chars = <<>> THEN out
    ELSE LET name == Trim(Head(chars).name)
         IN  IF name = "" THEN CastFromRequest(Tail(chars), out)
             ELSE CastFromRequest(Tail(chars),
                    MapPut(out, name,
                           [id |-> name, name |-> name,
                            role |-> Head(chars).description]))

\* list.retain(..): an entry stays when its trimmed form is not blank, is
\* allowed and has not been seen; the entry itself is kept as it was
RECURSIVE RetainAllowed(_, _, _)
RetainAllowed(list, allowed_set, seen) ==
    IF list = <<>> THEN <<>>
    ELSE LET n == Trim(Head(list))
         IN  IF n = "" \/ n \notin allowed_set \/ n \in seen
             THEN RetainAllowed(Tail(list), allowed_set, seen)
             ELSE <<Head(list)>>
                    \o RetainAllowed(Tail(list), allowed_set, seen \cup {n})

FilterPersons(node, allowed_set) ==
    IF node.characters = None THEN node
    ELSE LET list == RetainAllowed(Unwrap(node.characters), allowed_set, {})
         IN  [node EXCEPT !.characters = IF list = <<>> THEN None ELSE Some(list)]

EnforceCharacterConsistency(t, req_characters) ==
    IF req_characters = None THEN t
    ELSE LET out == CastFromRequest(Unwrap(req_characters), EmptyMap)
         IN  [t EXCEPT
                !.nodes = [k \in DOMAIN t.nodes |->
                             FilterPersons(t.nodes[k], DOMAIN out)],
                !.characters = out]

----------------------------------------------------------------------------
(* Input templates *)

MaxNodes == 3

MaxEdges == 2

\* Node keys.  "END" is also the sentinel target; a target naming a key that
\* is not in the node map is a dangling reference.
NodeKeyU == {"start", "a", "b", "END"}

ContentU == {"x", "y"}

MarkerU == {None, Some("ending_neutral"), Some("e1")}

TextU == {"go"}

\* targets: node keys, a padded node key, a blank, an ending key
TargetU == NodeKeyU \cup {" a ", "", "e1"}

TheEnding == [type |-> "neutral", description |-> "d"]

Choice(text, target) ==
    [text |-> text, next_node_id |-> target, affinity_effect |-> None]

ChoiceU == { Choice(x, y) : x \in TextU, y \in TargetU }

StoryNode(id, content, marker, choices) ==
    [id |-> id, content |-> content, ending_key |-> marker,
     characters |-> None, choices |-> choices]

\* the choices of node k among the edges es (pairs <<source, choice>>), in order
RECURSIVE ChoicesOf(_, _)
ChoicesOf(k, es) ==
    IF es = <<>> THEN <<>>
    ELSE IF Head(es)[1] = k THEN <<Head(es)[2]>> \o ChoicesOf(k, Tail(es))
    ELSE ChoicesOf(k, Tail(es))

NodeMap(S, content, marker, es) ==
    [k \in S |-> StoryNode(k, content[k], marker[k], ChoicesOf(k, es))]

NodeSets == { S \in SUBSET NodeKeyU : S # {} /\ Cardinality(S) <= MaxNodes }

\* the key sets of the endings maps tried: none, the canonical neutral ending,
\* a canonical ending that is not the neutral one, only free-named endings
EndingSets == { {}, {"ending_neutral"}, {"ending_bad"}, {"e1", "e2"} }

Template(nodes, ending_keys) ==
    [nodes |-> nodes,
     endings |-> [k \in ending_keys |-> TheEnding],
     characters |-> EmptyMap]

----------------------------------------------------------------------------
(* Operations: a stage alone, or the stages of a handler in order *)

Stages(o) ==
    CASE o = "sanitize_template_graph" -> <<"sanitize_template_graph">>
      [] o = "normalize_template_endings" -> <<"normalize_template_endings">>
      [] o = "sanitize_affinity_effects" -> <<"sanitize_affinity_effects">>
      [] o = "normalize_character_ids" -> <<"normalize_character_ids">>
      [] o = "normalize_template_nodes" -> <<"normalize_template_nodes">>
      [] o = "enforce_character_consistency" ->
           <<"enforce_character_consistency">>
      [] o = "ensure_minimum_game_graph" -> <<"ensure_minimum_game_graph">>
      [] o = "import_template" \/ o = "update_template" ->
           << "normalize_character_ids", "normalize_template_endings",
              "sanitize_template_graph", "normalize_template_nodes",
              "sanitize_affinity_effects" >>
      [] o = "generate" ->
           << "normalize_character_ids", "normalize_template_nodes",
              "normalize_template_endings", "enforce_character_consistency",
              "normalize_character_ids", "normalize_template_endings",
              "sanitize_template_graph", "sanitize_affinity_effects" >>
      [] o = "sanitize_passes" -> <<"sanitize_template_graph">>

\* the stage to run next, "done" after the last
Stage == IF pc <= Len(Stages(op)) THEN Stages(op)[pc] ELSE "done"

Start(o, t) ==
    /\ op = o
    /\ input = t
    /\ tpl = t
    /\ first = t
    /\ pc = 1
    /\ run = 1
    /\ picked = None
    /\ allow = None
    /\ work = None

\* a request: the template and payload.characters
StartRequest(o, t, req_characters) ==
    /\ op = o
    /\ input = t
    /\ tpl = t
    /\ first = t
    /\ pc = 1
    /\ run = 1
    /\ picked = None
    /\ allow = req_characters
    /\ work = None

\* templates of the graph family: at most MaxNodes nodes with at most
\* MaxEdges choices in all
InitGraph ==
    \E S \in NodeSets, e \in EndingSets :
      \E content \in [S -> ContentU], marker \in [S -> MarkerU], n \in 0..MaxEdges :
        \E es \in [1..n -> S \X ChoiceU] :
          Start("sanitize_template_graph",
                Template(NodeMap(S, content, marker, es), e))

Sanitize ==
    /\ Stage = "sanitize_template_graph"
    /\ tpl' \in SanitizeOutcomes(tpl)
    /\ pc' = pc + 1
    /\ UNCHANGED <<op, input, run, first, picked, allow, work>>

NextGraph == Sanitize

SpecGraph == InitGraph /\ [][NextGraph]_vars

----------------------------------------------------------------------------
(* normalize_template_endings applied to a template with many endings *)

MaxEndings == 6

EndingPool ==
    {"ending_good", "ending_neutral", "good", "GOOD", " good ", "bad_end",
     "e1", "e2", "e3"}

\* an ending whose description tells which input entry it was
Ending(k) == [type |-> "neutral", description |-> k]

\* one node "start" with one choice
EndingsTemplate(keys, target, marker) ==
    [nodes |-> [k \in {"start"} |->
                  StoryNode("start", "x", marker, <<Choice("go", target)>>)],
     endings |-> [k \in keys |-> Ending(k)],
     characters |-> EmptyMap]

InitEndings ==
    \E keys \in SUBSET EndingPool :
      /\ Cardinality(keys) <= MaxEndings
      /\ \E target \in {"good", " good ", "bad_end", "ending_good", "e1", "a"},
            marker \in {None, Some("good")} :
           Start("normalize_template_endings", EndingsTemplate(keys, target, marker))

NormalizeEndings ==
    /\ Stage = "normalize_template_endings"
    /\ tpl' \in NormalizeEndingsOutcomes(tpl)
    /\ pc' = pc + 1
    /\ UNCHANGED <<op, input, run, first, picked, allow, work>>

NextEndings == NormalizeEndings

SpecEndings == InitEndings /\ [][NextEndings]_vars

----------------------------------------------------------------------------
(* sanitize_affinity_effects applied to a cast and its nodes *)

MaxChoices == 1

Character(id, name, role) == [id |-> id, name |-> name, role |-> role]

\* the cast entries tried, by map key: two people without any protagonist
\* signal, one with the reserved name and a protagonist role, one with a
\* player key whose padded id collides with another entry's
CastU ==
    [k \in {"ann", "c1", "hero", "Player"} |->
       CASE k = "ann"    -> Character("ann", "ann", "friend")
         [] k = "c1"     -> Character("c1", "bob", "rival")
         [] k = "hero"   -> Character("hero", "WO", "Protagonist")
         [] k = "Player" -> Character(" c1 ", "eve", "")]

Cast(keys) == [k \in keys |-> CastU[k]]

\* person lists: absent, empty, padded, by id, by name, blank
PersonListU ==
    { None, Some(<<>>), Some(<<" ann ">>), Some(<<"c1">>),
      Some(<<"WO", "bob">>), Some(<<"", "eve">>) }

EffectTargetU == {"", " ", " ann ", "c1", "bob", "WO"}

DeltaU == {-35, -20, 0, 20, 21}

EffectU ==
    {None} \cup { Some([character_id |-> c, delta |-> d]) :
                    c \in EffectTargetU, d \in DeltaU }

EffectChoice(effect) ==
    [text |-> "go", next_node_id |-> "a", affinity_effect |-> effect]

PersonNode(id, persons, effects) ==
    [id |-> id, content |-> "x", ending_key |-> None, characters |-> persons,
     choices |-> [i \in 1..Len(effects) |-> EffectChoice(effects[i])]]

\* a template without nodes, with node "start" alone, or with "start" and a
\* node "a" that has a person list of its own and no choices
AffinityTemplate(keys, p_start, effects, p_a, cast_keys) ==
    [nodes |-> [k \in keys |->
                  IF k = "start" THEN PersonNode("start", p_start, effects)
                  ELSE PersonNode(k, p_a, <<>>)],
     endings |-> EmptyMap,
     characters |-> Cast(cast_keys)]

InitAffinity ==
    \E cast_keys \in SUBSET DOMAIN CastU :
      \/ Start("sanitize_affinity_effects",
               AffinityTemplate({}, None, <<>>, None, cast_keys))
      \/ \E p_start \in PersonListU, n \in 0..MaxChoices :
           \E effects \in [1..n -> EffectU] :
             \/ Start("sanitize_affinity_effects",
                      AffinityTemplate({"start"}, p_start, effects, None, cast_keys))
             \/ \E p_a \in PersonListU :
                  Start("sanitize_affinity_effects",
                        AffinityTemplate({"start", "a"}, p_start, effects, p_a,
                                         cast_keys))

\* picked records the protagonist the call computed (None when it returned
\* before computing one)
SanitizeAffinity ==
    /\ Stage = "sanitize_affinity_effects"
    /\ \E it \in Perms(DOMAIN tpl.characters) :
         /\ tpl' = SanitizeAffinityEffects(tpl, it)
         /\ picked' = IF DOMAIN tpl.nodes = {} THEN None
                      ELSE PickProtagonistName(tpl.characters, it)
    /\ pc' = pc + 1
    /\ UNCHANGED <<op, input, run, first, allow, work>>

NextAffinity == SanitizeAffinity

SpecAffinity == InitAffinity /\ [][NextAffinity]_vars

----------------------------------------------------------------------------
(* The stage calls of generate, run twice *)

MaxPipeNodes == 3

MaxPipeEdges == 2

PipeKeyU == {"start", "n_start", "a", "n_a", "n_n_a", "b"}

PipeTargetU == {"a", "b", "n_a", "c", "good"}

\* a choice without an effect, or with one on "bob"
PipeChoiceU ==
    { [text |-> "go", next_node_id |-> y, affinity_effect |-> e] :
        y \in PipeTargetU,
        e \in {None, Some([character_id |-> "bob", delta |-> 35])} }

PipeEndingSets == { {}, {"good", "e1"} }

PipeCastSets == { {}, {"ann", "c1"} }

\* every node lists "bob"; the entry node has a content of its own
PipeNode(k, es) ==
    [id |-> k,
     content |-> IF k \in {"start", "n_start"} THEN "s" ELSE "x",
     ending_key |-> None,
     characters |-> Some(<<"bob">>),
     choices |-> ChoicesOf(k, es)]

PipelineTemplate(S, es, ending_keys, cast_keys) ==
    [nodes |-> [k \in S |-> PipeNode(k, es)],
     endings |-> [k \in ending_keys |-> Ending(k)],
     characters |-> Cast(cast_keys)]

\* payload.characters of the request: absent, or the one person the nodes
\* list
InitPipeline ==
    \E S \in SUBSET PipeKeyU, e \in PipeEndingSets, c \in PipeCastSets :
      /\ S # {} /\ Cardinality(S) <= MaxPipeNodes
      /\ \E n \in 0..MaxPipeEdges :
           \E es \in [1..n -> S \X PipeChoiceU],
              a \in {None, Some(<<CharacterInput("bob", "rival", TRUE)>>)} :
             StartRequest("generate", PipelineTemplate(S, es, e, c), a)

NormalizeCharacters ==
    /\ Stage = "normalize_character_ids"
    /\ \E it \in Perms(DOMAIN tpl.characters) :
         tpl' = NormalizeCharacterIds(tpl, it)
    /\ pc' = pc + 1
    /\ UNCHANGED <<op, input, run, first, picked, allow, work>>

NormalizeNodes ==
    /\ Stage = "normalize_template_nodes"
    /\ tpl' = NormalizeTemplateNodes(tpl)
    /\ pc' = pc + 1
    /\ UNCHANGED <<op, input, run, first, picked, allow, work>>

EnforceCharacters ==
    /\ Stage = "enforce_character_consistency"
    /\ tpl' = EnforceCharacterConsistency(tpl, allow)
    /\ pc' = pc + 1
    /\ UNCHANGED <<op, input, run, first, picked, allow, work>>

\* the operations that are run a second time on their own output
RerunOps ==
    {"generate", "normalize_character_ids", "sanitize_passes",
     "normalize_template_nodes"}

\* the operation is run again on its own output; first keeps the output of
\* the first run
Rerun ==
    /\ op \in RerunOps
    /\ Stage = "done"
    /\ run = 1
    /\ first' = tpl
    /\ run' = 2
    /\ pc' = 1
    /\ UNCHANGED <<op, input, tpl, picked, allow, work>>

NextPipeline ==
    \/ NormalizeCharacters
    \/ NormalizeNodes
    \/ NormalizeEndings
    \/ EnforceCharacters
    \/ Sanitize
    \/ SanitizeAffinity
    \/ Rerun

SpecPipeline == InitPipeline /\ [][NextPipeline]_vars

----------------------------------------------------------------------------
(* The request handlers: the stage calls of generate, import_template and *)
(* update_template *)

MaxHandlerNodes == 2

MaxHandlerEdges == 1

HandlerU == {"generate", "import_template", "update_template"}

\* payload.characters of a generate request; the first entry with is_main,
\* else the first entry, is the protagonist
RequestCharactersU ==
    { None, Some(<<>>), Some(<<CharacterInput("bob", "rival", TRUE)>>),
      Some(<<CharacterInput(" ann ", "friend", FALSE),
             CharacterInput("", "nobody", FALSE)>>) }

InitHandlers ==
    \E S \in SUBSET PipeKeyU, e \in PipeEndingSets, c \in PipeCastSets :
      /\ S # {} /\ Cardinality(S) <= MaxHandlerNodes
      /\ \E n \in 0..MaxHandlerEdges :
           \E es \in [1..n -> S \X PipeChoiceU] :
             \/ \E a \in RequestCharactersU :
                  StartRequest("generate", PipelineTemplate(S, es, e, c), a)
             \/ \E h \in {"import_template", "update_template"} :
                  StartRequest(h, PipelineTemplate(S, es, e, c), None)

NextHandlers ==
    \/ NormalizeCharacters
    \/ NormalizeNodes
    \/ NormalizeEndings
    \/ EnforceCharacters
    \/ Sanitize
    \/ SanitizeAffinity

SpecHandlers == InitHandlers /\ [][NextHandlers]_vars

----------------------------------------------------------------------------
(* The request handlers applied to a cast whose ids differ from the names, *)
(* and to effects that name a person by id                                 *)

InitEffects ==
    \E cast_keys \in SUBSET {"ann", "c1", "hero"}, p_start \in PersonListU,
       n \in 0..MaxChoices, keys \in {{"start"}, {"start", "a"}} :
      \E effects \in [1..n -> EffectU] :
        \E h \in HandlerU :
          StartRequest(h, AffinityTemplate(keys, p_start, effects, None, cast_keys),
                       None)

SpecEffects == InitEffects /\ [][NextHandlers]_vars

----------------------------------------------------------------------------
(* import_template and update_template applied to an entry node under each *)
(* of its spellings                                                        *)

MaxImportNodes == 2

MaxImportEdges == 1

EntrySpellings == {"start", "n_start", "node_start"}

ImportKeyU == EntrySpellings \cup {"a"}

\* the contents "x" and "x " are equal after trim and differ before
InitImport ==
    \E S \in SUBSET ImportKeyU, e \in { {}, {"ending_neutral"} },
       h \in {"import_template", "update_template"} :
      /\ Cardinality(S) <= MaxImportNodes
      /\ \E content \in [S -> {"x", "x "}], n \in 0..MaxImportEdges :
           \E es \in [1..n -> S \X { Choice("go", y) : y \in ImportKeyU }] :
             StartRequest(h,
               Template(NodeMap(S, content, [k \in S |-> None], es), e), None)

NextImport ==
    \/ NormalizeCharacters
    \/ NormalizeEndings
    \/ Sanitize
    \/ NormalizeNodes
    \/ SanitizeAffinity

SpecImport == InitImport /\ [][NextImport]_vars

----------------------------------------------------------------------------
(* normalize_template_nodes applied to legacy and colliding node keys *)

MaxKeyNodes == 3

MaxKeyEdges == 1

NodeKeyPool ==
    {"start", "n_start", "node_start", "a", "n_a", "node_a", "a_2", "b"}

\* how the id fields of the template relate to the map keys: equal to the
\* key, empty, or some other string
IdKindU == {"key", "empty", "other"}

NodeIdOf(k, kind) ==
    CASE kind = "key"   -> k
      [] kind = "empty" -> ""
      [] kind = "other" -> "zz"

\* a node whose content is the key it arrived under
KeyedNode(k, kind, es) ==
    [id |-> NodeIdOf(k, kind), content |-> k, ending_key |-> None,
     characters |-> None, choices |-> ChoicesOf(k, es)]

KeysTemplate(S, kind, es) ==
    [nodes |-> [k \in S |-> KeyedNode(k, kind, es)],
     endings |-> EmptyMap,
     characters |-> EmptyMap]

InitNodes ==
    \E S \in SUBSET NodeKeyPool, kind \in IdKindU :
      /\ Cardinality(S) <= MaxKeyNodes
      /\ \E n \in 0..MaxKeyEdges :
           \E es \in [1..n -> S \X { Choice("go", y) : y \in NodeKeyPool \cup {"c"} }] :
             Start("normalize_template_nodes", KeysTemplate(S, kind, es))

NextNodes == NormalizeNodes

SpecNodes == InitNodes /\ [][NextNodes]_vars

----------------------------------------------------------------------------
(* normalize_template_nodes run a second time on its own output *)

MaxRerunNodes == 2

\* the keys of SpecNodes and two keys that carry a legacy prefix twice
RerunKeyPool == NodeKeyPool \cup {"n_n_a", "node_n_a"}

InitNodesTwice ==
    \E S \in SUBSET RerunKeyPool, kind \in IdKindU :
      /\ Cardinality(S) <= MaxRerunNodes
      /\ \E n \in 0..MaxKeyEdges :
           \E es \in [1..n -> S \X { Choice("go", y) : y \in RerunKeyPool \cup {"c"} }] :
             Start("normalize_template_nodes", KeysTemplate(S, kind, es))

NextNodesTwice == NormalizeNodes \/ Rerun

SpecNodesTwice == InitNodesTwice /\ [][NextNodesTwice]_vars

----------------------------------------------------------------------------
(* normalize_character_ids applied to a cast, twice *)

MaxCast == 2

CastKeyPool == {"k1", "k2", "ann"}

CastNameU == {"", " ", "ann", "bob"}

CastIdU == {"", "c1", "ann"}

\* a cast whose entries carry the key they arrived under as their role
TaggedCast(keys, name, id) ==
    [k \in keys |-> Character(id[k], name[k], k)]

CastTemplate(cast) ==
    [nodes |-> EmptyMap, endings |-> EmptyMap, characters |-> cast]

InitCast ==
    \E keys \in SUBSET CastKeyPool :
      /\ Cardinality(keys) <= MaxCast
      /\ \E name \in [keys -> CastNameU], id \in [keys -> CastIdU] :
           Start("normalize_character_ids",
                 CastTemplate(TaggedCast(keys, name, id)))

NextCast == NormalizeCharacters \/ Rerun

SpecCast == InitCast /\ [][NextCast]_vars

----------------------------------------------------------------------------
(* enforce_character_consistency applied to person lists and a request *)

MaxAllow == 2

\* the names of the request's characters: plain, padded, blank
AllowNameU == {"ann", " ann ", "bob", "", " "}

\* the person lists of a node: absent, empty, plain, padded, repeated, with a
\* blank, with a name the request may not have
ConsistencyListU ==
    { None, Some(<<>>), Some(<<"ann">>), Some(<<" ann ">>),
      Some(<<"ann", " ann ", "ann">>), Some(<<"bob", "", "ann">>),
      Some(<<"eve">>) }

\* nodes "start" and "a" with their person lists, and a cast that the
\* request replaces
ConsistencyTemplate(p_start, p_a, cast_keys) ==
    [nodes |-> [k \in {"start", "a"} |->
                  PersonNode(k, IF k = "start" THEN p_start ELSE p_a, <<>>)],
     endings |-> EmptyMap,
     characters |-> Cast(cast_keys)]

\* a request without characters, or with up to MaxAllow of them; the
\* description of an entry tells its position
InitConsistency ==
    \E p_start \in ConsistencyListU, p_a \in ConsistencyListU,
       cast_keys \in {{}, {"ann", "c1"}} :
      \/ StartRequest("enforce_character_consistency",
                      ConsistencyTemplate(p_start, p_a, cast_keys), None)
      \/ \E n \in 0..MaxAllow :
           \E names \in [1..n -> AllowNameU] :
             StartRequest("enforce_character_consistency",
                          ConsistencyTemplate(p_start, p_a, cast_keys),
                          Some([i \in 1..n |->
                                  CharacterInput(names[i],
                                                 IF i = 1 THEN "first" ELSE "later",
                                                 i = 1)]))

NextConsistency == EnforceCharacters

SpecConsistency == InitConsistency /\ [][NextConsistency]_vars

----------------------------------------------------------------------------
(* ensure_minimum_game_graph applied to a template and a request.  The     *)
(* function is marked dead code: its call in generate is commented out and *)
(* it is called on its own.                                                *)

\* The texts the function writes are Chinese literals; each stands here
\* under an ASCII name: "ZHUJUE" for the default protagonist name (U+4E3B
\* U+89D2), "YUANGONG" for the role (U+5458 U+5DE5), *_scene for the three
\* node contents, *_text for the three ending descriptions and the choice
\* texts by their meaning.  level of a node is left out as everywhere.
\* protagonist_name is the name of the first request character with is_main,
\* else of the first one, else the default; it is not trimmed.
EnsureMinimumGameGraph(t, language_tag, req_characters) ==
    LET chars == IF req_characters = None THEN <<>> ELSE Unwrap(req_characters)
        mains == { i \in 1..Len(chars) : chars[i].is_main }
        protagonist_name ==
            IF chars = <<>> THEN "ZHUJUE"
            ELSE IF mains # {}
                 THEN chars[CHOOSE i \in mains : \A j \in mains : i <= j].name
                 ELSE chars[1].name
        tagged == [t EXCEPT !.meta.language =
                              IF @ = "" THEN language_tag ELSE @]
        enforced == EnforceCharacterConsistency(tagged, req_characters)
        ended ==
            IF DOMAIN enforced.endings = {}
            THEN [enforced EXCEPT !.endings =
                    [k \in {"ending_good", "ending_neutral", "ending_bad"} |->
                       CASE k = "ending_good" ->
                              [type |-> "good", description |-> "good_text"]
                         [] k = "ending_neutral" ->
                              [type |-> "neutral", description |-> "neutral_text"]
                         [] k = "ending_bad" ->
                              [type |-> "bad", description |-> "bad_text"]]]
            ELSE enforced
        Scene(id, content, choices) ==
            [id |-> id, content |-> content, ending_key |-> None,
             characters |-> Some(<<protagonist_name>>), choices |-> choices]
    IN  IF \/ DOMAIN ended.nodes = {}
           \/ ("start" \notin DOMAIN ended.nodes
                 /\ "n_start" \notin DOMAIN ended.nodes)
        THEN [ended EXCEPT
                !.characters =
                   IF "c_player" \in DOMAIN @ THEN @
                   ELSE MapPut(@, "c_player",
                               Character("c_player", protagonist_name, "YUANGONG")),
                !.nodes =
                   MapPut(MapPut(MapPut(@,
                     "start",
                     Scene("start", "start_scene",
                           << Choice("go_back", "confront"),
                              Choice("walk_away", "escape") >>)),
                     "confront",
                     Scene("confront", "confront_scene",
                           << Choice("hold_boundary", "ending_good"),
                              Choice("give_in", "ending_bad") >>)),
                     "escape",
                     Scene("escape", "escape_scene",
                           << Choice("go_home", "ending_neutral") >>))]
        ELSE ended

\* templates without nodes, without an entry node, with one under either
\* spelling, and with a node under a key the function writes; meta holds the
\* language alone; the cast may hold the key the function inserts; requests
\* without characters, with one that is_main, with a later one that is_main,
\* with none that is_main and a padded name, and with the name "c_player"
InitMinimumGraph ==
    \E node_keys \in { {}, {"a"}, {"start"}, {"n_start"}, {"confront"} },
       ending_keys \in { {}, {"e1"}, {"ending_good"} },
       cast_keys \in { {}, {"c_player"} },
       language \in {"", "en"},
       req_characters \in
         { None, Some(<<>>),
           Some(<<CharacterInput("bob", "rival", TRUE)>>),
           Some(<<CharacterInput("ann", "friend", FALSE),
                  CharacterInput("bob", "rival", TRUE)>>),
           Some(<<CharacterInput(" ann ", "friend", FALSE),
                  CharacterInput("bob", "rival", FALSE)>>),
           Some(<<CharacterInput("c_player", "self", FALSE)>>) } :
      StartRequest("ensure_minimum_game_graph",
                   [nodes |-> [k \in node_keys |->
                                 PersonNode(k, Some(<<"ann", "eve">>), <<>>)],
                    endings |-> [k \in ending_keys |-> TheEnding],
                    characters |-> [k \in cast_keys |->
                                      Character("c_player", "eve", "")],
                    meta |-> [language |-> language]],
                   req_characters)

\* language_tag is payload.language, "zh-CN" when the request has none
EnsureMinimumGraph ==
    /\ Stage = "ensure_minimum_game_graph"
    /\ \E language_tag \in {"zh-CN", "ja"} :
         tpl' = EnsureMinimumGameGraph(tpl, language_tag, allow)
    /\ pc' = pc + 1
    /\ UNCHANGED <<op, input, run, first, picked, allow, work>>

SpecMinimumGraph == InitMinimumGraph /\ [][EnsureMinimumGraph]_vars

----------------------------------------------------------------------------
(* The stage calls of generate, with the while loop of                     *)
(* normalize_template_nodes and the recursion of dfs taken step by step    *)

MaxStepEdges == 3

\* key sets: two keys that collide after stripping with the suffix taken as
\* well, both spellings of the entry node, plain keys, one node
StepKeySets ==
    { {"a", "a_2", "n_a"}, {"start", "n_start", "a"}, {"start", "a", "b"},
      {"a"} }

\* nodes whose content is the key they arrived under; targets are the keys
\* of the template and one key that is not a node
StepTemplate(S, es, e) ==
    [nodes |-> [k \in S |-> KeyedNode(k, "key", es)],
     endings |-> [k \in e |-> TheEnding],
     characters |-> EmptyMap]

\* the locals of the stage that is running.  loop: "idle" between stages,
\* "keys" in `for old_key in keys`, "suffix" in the while loop, "collect" in
\* `for node_id in keys` of Pass A, "dfs" in the traversal.  owner is
\* signature_owner without the entry of the entry node.  stack: the frames <<cur, outgoing>> of the calls of dfs that
\* have not returned, the innermost last.  tries, max_tries, entered and
\* rewrites count what the code does, they are not variables of the code.
WorkIdle ==
    [loop |-> "idle", keys |-> <<>>, used |-> {}, mapping |-> EmptyMap,
     new_key |-> "", final_key |-> "", i |-> 2, tries |-> 0, max_tries |-> 0,
     owner |-> EmptyMap, redirect |-> EmptyMap,
     nodes |-> EmptyMap, state |-> EmptyMap, node_ids |-> <<>>,
     stack |-> <<>>, entered |-> EmptyMap, rewrites |-> 0]

InitSteps ==
    \E S \in StepKeySets, e \in { {}, {"ending_neutral"} } :
      \E n \in 0..MaxStepEdges :
        \E es \in [1..n -> S \X { Choice("go", y) : y \in S \cup {"zz"} }] :
          /\ op = "generate"
          /\ input = StepTemplate(S, es, e)
          /\ tpl = input
          /\ first = input
          /\ pc = 1
          /\ run = 1
          /\ picked = None
          /\ allow = Some(<<CharacterInput("ann", "friend", TRUE)>>)
          /\ work = WorkIdle

\* normalize_template_nodes up to the loop: the keys, sorted
KeysBegin ==
    /\ Stage = "normalize_template_nodes"
    /\ work.loop = "idle"
    /\ IF DOMAIN tpl.nodes = {}
       THEN pc' = pc + 1 /\ work' = work
       ELSE /\ pc' = pc
            /\ work' = [work EXCEPT !.loop = "keys",
                                    !.keys = SortKeys(DOMAIN tpl.nodes),
                                    !.used = {},
                                    !.mapping = EmptyMap]
    /\ UNCHANGED <<op, input, tpl, run, first, picked, allow>>

\* for old_key in keys: new_key, final_key and i before the while loop
KeyNext ==
    /\ Stage = "normalize_template_nodes"
    /\ work.loop = "keys"
    /\ work.keys # <<>>
    /\ work' = [work EXCEPT !.loop = "suffix",
                            !.new_key = NewKey(Head(work.keys)),
                            !.final_key = NewKey(Head(work.keys)),
                            !.i = 2,
                            !.tries = 0]
    /\ UNCHANGED <<op, input, tpl, pc, run, first, picked, allow>>

\* one turn of `while used.contains_key(&final_key)`
SuffixTry ==
    /\ Stage = "normalize_template_nodes"
    /\ work.loop = "suffix"
    /\ work.final_key \in work.used
    /\ work' = [work EXCEPT !.final_key = Suffixed(work.new_key, work.i),
                            !.i = @ + 1,
                            !.tries = @ + 1,
                            !.max_tries = IF work.tries + 1 > @
                                          THEN work.tries + 1 ELSE @]
    /\ UNCHANGED <<op, input, tpl, pc, run, first, picked, allow>>

\* the loop is left: final_key is marked used and entered in the mapping if
\* it differs from the old key
KeyAssign ==
    /\ Stage = "normalize_template_nodes"
    /\ work.loop = "suffix"
    /\ work.final_key \notin work.used
    /\ work' = [work EXCEPT !.loop = "keys",
                            !.keys = Tail(@),
                            !.used = @ \cup {work.final_key},
                            !.mapping = IF work.final_key # Head(work.keys)
                                        THEN MapPut(@, Head(work.keys),
                                                    work.final_key)
                                        ELSE @]
    /\ UNCHANGED <<op, input, tpl, pc, run, first, picked, allow>>

\* after the last key: the node map is rebuilt and the stage returns
KeysEnd ==
    /\ Stage = "normalize_template_nodes"
    /\ work.loop = "keys"
    /\ work.keys = <<>>
    /\ tpl' = RebuildNodes(tpl, work.mapping)
    /\ pc' = pc + 1
    /\ work' = [work EXCEPT !.loop = "idle"]
    /\ UNCHANGED <<op, input, run, first, picked, allow>>

\* mutant of MarkEntered: the node is not marked
MarkEnteredNot(state, cur) == state

\* state.insert(cur, 1)
MarkEntered(state, cur) == MapPut(state, cur, 1)

\* a call dfs(cur): cur is marked in progress and its targets are copied
Enter(w, cur) ==
    [w EXCEPT !.state = MarkEntered(@, cur),
              !.stack = Append(@,
                 [cur |-> cur,
                  outgoing |-> [i \in 1..Len(w.nodes[cur].choices) |->
                                  w.nodes[cur].choices[i].next_node_id]]),
              !.entered = [@ EXCEPT ![cur] = @ + 1]]

\* sanitize_template_graph up to the loop of Pass A: the keys, sorted, the
\* entry node first
SanitizeBegin ==
    /\ Stage = "sanitize_template_graph"
    /\ work.loop = "idle"
    /\ IF DOMAIN tpl.nodes = {}
       THEN pc' = pc + 1 /\ work' = work
       ELSE /\ pc' = pc
            /\ work' = [work EXCEPT !.loop = "collect",
                                    !.keys = EntryFirst(DOMAIN tpl.nodes),
                                    !.owner = EmptyMap,
                                    !.redirect = EmptyMap]
    /\ UNCHANGED <<op, input, tpl, run, first, picked, allow>>

\* for node_id in keys: the entry node is skipped, a node with a signature
\* seen before is redirected to the owner of the signature, else it becomes
\* the owner
CollectNext ==
    /\ Stage = "sanitize_template_graph"
    /\ work.loop = "collect"
    /\ work.keys # <<>>
    /\ \E node_id \in {Head(work.keys)} :
         IF node_id = "start" \/ node_id = "n_start"
         THEN work' = [work EXCEPT !.keys = Tail(@)]
         ELSE \E sig \in {Signature(tpl.nodes[node_id])} :
                IF sig \in DOMAIN work.owner
                THEN work' = [work EXCEPT
                               !.keys = Tail(@),
                               !.redirect = MapPut(@, node_id, work.owner[sig])]
                ELSE work' = [work EXCEPT
                               !.keys = Tail(@),
                               !.owner = MapPut(@, sig, node_id)]
    /\ UNCHANGED <<op, input, tpl, pc, run, first, picked, allow>>

\* after the last key: the rest of Pass A, then state and node_ids of the
\* traversal
Collapse ==
    /\ Stage = "sanitize_template_graph"
    /\ work.loop = "collect"
    /\ work.keys = <<>>
    /\ \E ord \in Perms(DOMAIN work.redirect) :
         \E a \in {PassA(tpl.nodes, work.redirect, ord)} :
           work' = [work EXCEPT !.loop = "dfs",
                                !.nodes = a,
                                !.state = EmptyMap,
                                !.node_ids = EntryFirst(DOMAIN a),
                                !.stack = <<>>,
                                !.entered = [k \in DOMAIN a |-> 0]]
    /\ UNCHANGED <<op, input, tpl, pc, run, first, picked, allow>>

\* for id in node_ids: dfs(id) if id is unvisited
DfsRoot ==
    /\ Stage = "sanitize_template_graph"
    /\ work.loop = "dfs"
    /\ work.stack = <<>>
    /\ work.node_ids # <<>>
    /\ LET id == Head(work.node_ids)
           w == [work EXCEPT !.node_ids = Tail(@)]
       IN  work' = IF id \notin DOMAIN work.state THEN Enter(w, id) ELSE w
    /\ UNCHANGED <<op, input, tpl, pc, run, first, picked, allow>>

\* for next in outgoing, in the innermost call: one target
DfsEdge ==
    /\ Stage = "sanitize_template_graph"
    /\ work.loop = "dfs"
    /\ work.stack # <<>>
    /\ work.stack[Len(work.stack)].outgoing # <<>>
    /\ LET top == Len(work.stack)
           cur == work.stack[top].cur
           next == Head(work.stack[top].outgoing)
           fallback == EndingNeutralKey(tpl)
           w == [work EXCEPT !.stack[top].outgoing = Tail(@)]
       IN  work' =
             IF next = cur
             THEN [w EXCEPT !.nodes = RewriteTarget(@, cur, cur, fallback),
                            !.rewrites = @ + 1]
             ELSE IF next \notin DOMAIN w.nodes THEN w
             ELSE IF next \in DOMAIN w.state /\ w.state[next] = 1
             THEN [w EXCEPT !.nodes = RewriteTarget(@, cur, next, fallback),
                            !.rewrites = @ + 1]
             ELSE IF next \notin DOMAIN w.state THEN Enter(w, next)
             ELSE w
    /\ UNCHANGED <<op, input, tpl, pc, run, first, picked, allow>>

\* the innermost call has no target left: cur is marked finished and the
\* call returns
DfsReturn ==
    /\ Stage = "sanitize_template_graph"
    /\ work.loop = "dfs"
    /\ work.stack # <<>>
    /\ work.stack[Len(work.stack)].outgoing = <<>>
    /\ work' = [work EXCEPT
                  !.state = MapPut(@, work.stack[Len(work.stack)].cur, 2),
                  !.stack = SubSeq(@, 1, Len(@) - 1)]
    /\ UNCHANGED <<op, input, tpl, pc, run, first, picked, allow>>

\* after the traversal: Pass C, and the stage returns
SanitizeEnd ==
    /\ Stage = "sanitize_template_graph"
    /\ work.loop = "dfs"
    /\ work.stack = <<>>
    /\ work.node_ids = <<>>
    /\ \E fk \in FirstKeys(tpl) :
         tpl' = [tpl EXCEPT !.nodes =
                   PassC(work.nodes, DOMAIN tpl.endings,
                         EndingFallback(tpl, fk), EndingNeutralKey(tpl))]
    /\ pc' = pc + 1
    /\ work' = [work EXCEPT !.loop = "idle"]
    /\ UNCHANGED <<op, input, run, first, picked, allow>>

NextSteps ==
    \/ NormalizeCharacters
    \/ KeysBegin
    \/ KeyNext
    \/ SuffixTry
    \/ KeyAssign
    \/ KeysEnd
    \/ NormalizeEndings
    \/ EnforceCharacters
    \/ SanitizeBegin
    \/ CollectNext
    \/ Collapse
    \/ DfsRoot
    \/ DfsEdge
    \/ DfsReturn
    \/ SanitizeEnd
    \/ SanitizeAffinity

\* the stages run in one thread that is never suspended: a step that can be
\* taken is taken
SpecSteps == InitSteps /\ [][NextSteps]_vars /\ WF_vars(NextSteps)

----------------------------------------------------------------------------
(* sanitize_template_graph taken pass by pass, and run a second time on    *)
(* its own output                                                          *)

MaxPassNodes == 2

MaxPassEdges == 2

\* node keys, one of them padded
PassKeyU == {"start", "a", "b", " a "}

\* the locals of sanitize_template_graph between its passes.  pass: the pass
\* to run next ("A" outside the function); before: the nodes as Pass B last
\* found them, kept for the comparison with what the later passes left
PassIdle == [pass |-> "A", before |-> EmptyMap]

StartPasses(t) ==
    /\ op = "sanitize_passes"
    /\ input = t
    /\ tpl = t
    /\ first = t
    /\ pc = 1
    /\ run = 1
    /\ picked = None
    /\ allow = None
    /\ work = PassIdle

\* the endings map has no ending, the neutral one, or the unfavourable one;
\* each marker names an ending of one of these maps and of no other; the
\* targets are the node keys, a blank and an ending key
InitPasses ==
    \E S \in SUBSET PassKeyU,
       e \in { {}, {"ending_neutral"}, {"ending_bad"} } :
      /\ Cardinality(S) <= MaxPassNodes
      /\ \E content \in [S -> ContentU],
            marker \in [S -> {None, Some("ending_neutral"), Some("ending_bad")}],
            n \in 0..MaxPassEdges :
           \E es \in [1..n -> S \X { Choice("go", y) :
                                       y \in PassKeyU \cup {"", "ending_neutral"} }] :
             StartPasses(Template(NodeMap(S, content, marker, es), e))

\* the early return on an empty node map, else Pass A: duplicate collapse
DuplicateCollapse ==
    /\ Stage = "sanitize_template_graph"
    /\ work.pass = "A"
    /\ IF DOMAIN tpl.nodes = {}
       THEN tpl' = tpl /\ pc' = pc + 1 /\ work' = work
       ELSE /\ \E redirect \in {Redirect(tpl)} :
                 \E ord \in Perms(DOMAIN redirect) :
                   tpl' = [tpl EXCEPT !.nodes = PassA(tpl.nodes, redirect, ord)]
            /\ pc' = pc
            /\ work' = [work EXCEPT !.pass = "B"]
    /\ UNCHANGED <<op, input, run, first, picked, allow>>

\* Pass B: the traversal that rewrites self-loops and back edges
CycleElimination ==
    /\ Stage = "sanitize_template_graph"
    /\ work.pass = "B"
    /\ tpl' = [tpl EXCEPT !.nodes = PassB(tpl.nodes, EndingNeutralKey(tpl))]
    /\ work' = [pass |-> "C", before |-> tpl.nodes]
    /\ UNCHANGED <<op, input, pc, run, first, picked, allow>>

\* Pass C: reference repair, clearing of terminal nodes, marker assignment
ReferenceRepair ==
    /\ Stage = "sanitize_template_graph"
    /\ work.pass = "C"
    /\ \E fk \in FirstKeys(tpl) :
         tpl' = [tpl EXCEPT !.nodes =
                   PassC(tpl.nodes, DOMAIN tpl.endings,
                         EndingFallback(tpl, fk), EndingNeutralKey(tpl))]
    /\ pc' = pc + 1
    /\ work' = [work EXCEPT !.pass = "A"]
    /\ UNCHANGED <<op, input, run, first, picked, allow>>

NextPasses ==
    \/ DuplicateCollapse
    \/ CycleElimination
    \/ ReferenceRepair
    \/ Rerun

SpecPasses == InitPasses /\ [][NextPasses]_vars

----------------------------------------------------------------------------
(* The passes of sanitize_template_graph applied to graphs with cycles *)

MaxCycleNodes == 3

MaxCycleEdges == 3

\* node keys; "END" is also the key that the traversal substitutes when the
\* template has no ending
CycleKeyU == {"start", "a", "b", "END"}

\* nodes of one content without markers; every target is a key of the
\* universe, a node of the template or not
InitCycles ==
    \E S \in SUBSET CycleKeyU, e \in { {}, {"ending_neutral"} } :
      /\ S # {} /\ Cardinality(S) <= MaxCycleNodes
      /\ \E n \in 0..MaxCycleEdges :
           \E es \in [1..n -> S \X { Choice("go", y) : y \in CycleKeyU }] :
             StartPasses(Template(NodeMap(S, [k \in S |-> "x"],
                                          [k \in S |-> None], es), e))

NextCycles ==
    \/ DuplicateCollapse
    \/ CycleElimination
    \/ ReferenceRepair

SpecCycles == InitCycles /\ [][NextCycles]_vars

----------------------------------------------------------------------------
(* The passes of sanitize_template_graph applied to graphs with duplicates *)

MaxCollapseEdges == 2

\* three nodes under plain keys, with an entry node, or with a padded key;
\* contents that are equal, equal after trimming, or different; markers that
\* name the one ending of the template or none; every target is a node of
\* the template or the key "zz" that is none
InitCollapse ==
    \E S \in { {"a", "b", "c"}, {"start", "a", "b"}, {" a ", "b", "c"} } :
      \E content \in [S -> {"x", "x ", "y"}],
         marker \in [S -> {None, Some("e1"), Some("e2")}],
         n \in 0..MaxCollapseEdges :
        \E es \in [1..n -> S \X { Choice("go", y) : y \in S \cup {"zz"} }] :
          StartPasses(Template(NodeMap(S, content, marker, es), {"e1"}))

SpecCollapse == InitCollapse /\ [][NextCycles]_vars

----------------------------------------------------------------------------
(* Properties of the sanitized graph *)

Targets(node) == { node.choices[i].next_node_id : i \in 1..Len(node.choices) }

\* the node keys that the choices of node k target
Succs(nodes, k) == Targets(nodes[k]) \cap DOMAIN nodes

RECURSIVE ReachableFrom(_, _, _)
ReachableFrom(nodes, frontier, seen) ==
    IF frontier \subseteq seen THEN seen
    ELSE ReachableFrom(nodes,
           UNION { Succs(nodes, k) : k \in frontier \ seen }, seen \cup frontier)

\* following choices one or more times from k leads back to k
OnCycle(nodes, k) == k \in ReachableFrom(nodes, Succs(nodes, k), {})

Done == Stage = "done"

Sanitized == op = "sanitize_template_graph" /\ Done

\* C1: after sanitize_template_graph the choice graph is acyclic: no node is
\* reached from itself by following choice targets through node keys, and no
\* choice targets its own node.
C1_Acyclic ==
    Sanitized => \A k \in DOMAIN tpl.nodes : ~OnCycle(tpl.nodes, k)

\* C2: after sanitize_template_graph every choice target is exactly a node
\* key, an ending key or the sentinel "END".
C2_ReferentialClosure ==
    Sanitized =>
      \A k \in DOMAIN tpl.nodes :
        Targets(tpl.nodes[k]) \subseteq
          DOMAIN tpl.nodes \cup DOMAIN tpl.endings \cup {"END"}

\* C3: after sanitize_template_graph a choice targets the sentinel "END" only
\* if the endings map is empty.
C3_SentinelOnlyWithoutEndings ==
    Sanitized /\ DOMAIN tpl.endings # {} =>
      \A k \in DOMAIN tpl.nodes : "END" \notin Targets(tpl.nodes[k])

\* the signature of the claim: trimmed content and the sorted list of
\* (text, target) pairs as they stand
OutputSignature(node) ==
    << Trim(node.content),
       SortParts([i \in 1..Len(node.choices) |->
                    <<node.choices[i].text, node.choices[i].next_node_id>>]) >>

\* C4: after sanitize_template_graph no two distinct nodes have the same
\* signature.
C4_UniqueSignatures ==
    Sanitized =>
      \A j, k \in DOMAIN tpl.nodes :
        j # k => OutputSignature(tpl.nodes[j]) # OutputSignature(tpl.nodes[k])

\* C5: after sanitize_template_graph a node has no choices exactly if its
\* ending_key names an ending, except that a node without choices may lack a
\* valid ending_key when the graph has no neutral ending.
C5_TerminalConsistency ==
    Sanitized =>
      \A k \in DOMAIN tpl.nodes :
        LET node == tpl.nodes[k]
            marked == /\ node.ending_key # None
                      /\ node.ending_key \subseteq DOMAIN tpl.endings
        IN  \/ (node.choices = <<>>) <=> marked
            \/ /\ node.choices = <<>>
               /\ ~marked
               /\ "ending_neutral" \notin DOMAIN tpl.endings

\* C5 witness: one node lost its choices because its ending_key names an
\* ending, another node without choices was given an ending_key, and a third
\* node keeps its choices.
C5_Witness ==
    /\ Sanitized
    /\ \E j, k, l \in DOMAIN tpl.nodes :
         /\ input.nodes[j].choices # <<>>
         /\ input.nodes[j].ending_key # None
         /\ tpl.nodes[j].choices = <<>>
         /\ input.nodes[k].ending_key = None
         /\ tpl.nodes[k].ending_key # None
         /\ tpl.nodes[l].choices # <<>>

\* C10: sanitize_template_graph is deterministic: the template it leaves is
\* the only one it can leave for that input, whatever the iteration orders of
\* its hash maps.
C10_Deterministic == Sanitized => SanitizeOutcomes(input) = {tpl}

\* the nodes other than the entry node
NonEntry(t) == DOMAIN t.nodes \ {"start", "n_start"}

SameSignature(t, j, k) == Signature(t.nodes[j]) = Signature(t.nodes[k])

\* for every non-entry node the first key, in lexicographic order, among the
\* non-entry nodes with its signature
Owners(t) ==
    [k \in NonEntry(t) |->
       CHOOSE o \in NonEntry(t) :
         /\ SameSignature(t, o, k)
         /\ \A j \in NonEntry(t) :
              SameSignature(t, j, k) => (j = o \/ StrLess(o, j))]

\* the non-entry nodes that are not the first of their group
Removed(t) == { k \in NonEntry(t) : Owners(t)[k] # k }

\* the ending_key the collapse leaves on owner o: its own, else the one of a
\* removed duplicate
CollapseMarkers(t, o) ==
    IF IsSome(t.nodes[o].ending_key) THEN {t.nodes[o].ending_key}
    ELSE { t.nodes[d].ending_key :
             d \in { r \in Removed(t) :
                       Owners(t)[r] = o /\ IsSome(t.nodes[r].ending_key) } }

----------------------------------------------------------------------------
(* Properties of normalize_template_endings *)

EndingsNormalized == op = "normalize_template_endings" /\ Done

\* C6: after normalize_template_endings the endings map has at most 5
\* entries.
C6_EndingCap == EndingsNormalized => Cardinality(DOMAIN tpl.endings) <= 5

\* C6 witness: an endings map with more than 5 entries, still more than 5
\* after merging the aliases, was cut down to 5.
C6_Witness ==
    /\ EndingsNormalized
    /\ Cardinality(DOMAIN MoveAliases(input.endings, SortKeys(DOMAIN input.endings))) > 5
    /\ Cardinality(DOMAIN tpl.endings) = 5

\* the non-canonical spellings of the three canonical keys
AliasSpellings ==
    {"good_end", "end_good", "good", "GOOD",
     "neutral_end", "end_neutral", "neutral", "NEUTRAL",
     "bad_end", "end_bad", "bad", "BAD"}

\* the canonical key an alias spelling stands for
CanonicalOf(s) ==
    IF s \in {"good_end", "end_good", "good", "GOOD"} THEN "ending_good"
    ELSE IF s \in {"neutral_end", "end_neutral", "neutral", "NEUTRAL"}
    THEN "ending_neutral"
    ELSE "ending_bad"

\* k is an alias spelling, possibly padded with blanks
IsAlias(k) == Trim(k) \in AliasSpellings

\* C16: after normalize_template_endings on a template with at least one
\* ending, no key of the endings map and no choice target is an alias
\* spelling; the entry under a canonical key is the one the input had under
\* that key, or else the entry of one of its aliases; every choice whose
\* target was an alias targets the canonical key.
C16_NoAliasLeft ==
    (EndingsNormalized /\ DOMAIN input.endings # {}) =>
      /\ \A k \in DOMAIN tpl.endings : ~IsAlias(k)
      /\ \A k \in DOMAIN input.endings :
           IsAlias(k) =>
             LET to == CanonicalOf(Trim(k))
             IN  /\ to \in DOMAIN tpl.endings
                 /\ IF to \in DOMAIN input.endings
                    THEN tpl.endings[to] = input.endings[to]
                    ELSE \E from \in DOMAIN input.endings :
                           /\ IsAlias(from) /\ CanonicalOf(Trim(from)) = to
                           /\ tpl.endings[to] = input.endings[from]
      /\ \A k \in DOMAIN tpl.nodes :
           \A i \in 1..Len(tpl.nodes[k].choices) :
             LET old == input.nodes[k].choices[i].next_node_id
                 new == tpl.nodes[k].choices[i].next_node_id
             IN  /\ ~IsAlias(new)
                 /\ IsAlias(old) => new = CanonicalOf(Trim(old))

\* C16 witness: the input had an alias entry beside its canonical entry,
\* another alias entry without its canonical entry, and a choice targeting
\* an alias.
C16_Witness ==
    /\ EndingsNormalized
    /\ {"good", "ending_good", "bad_end"} \subseteq DOMAIN input.endings
    /\ IsAlias(input.nodes["start"].choices[1].next_node_id)
    /\ tpl.endings["ending_bad"] = input.endings["bad_end"]

\* C17: after normalize_template_endings on a template with at least one
\* ending, a node whose ending_key was an alias spelling carries the
\* canonical key.
C17_MarkerCanonical ==
    (EndingsNormalized /\ DOMAIN input.endings # {}) =>
      \A k \in DOMAIN tpl.nodes :
        LET old == input.nodes[k].ending_key
        IN  (IsSome(old) /\ IsAlias(Unwrap(old))) =>
              tpl.nodes[k].ending_key = Some(CanonicalOf(Trim(Unwrap(old))))


----------------------------------------------------------------------------
(* Properties of the sanitized affinity effects *)

AffinitySanitized == op = "sanitize_affinity_effects" /\ Done

\* the positions <<node key, choice index>> of the template's choices
ChoicePositions(t) ==
    UNION { { <<k, i>> : i \in 1..Len(t.nodes[k].choices) } : k \in DOMAIN t.nodes }

EffectAt(t, pos) == t.nodes[pos[1]].choices[pos[2]].affinity_effect

\* the positions whose effect is still there after the call
Surviving ==
    { pos \in ChoicePositions(tpl) : IsSome(EffectAt(tpl, pos)) }

\* C7: after sanitize_affinity_effects every surviving effect has its delta in
\* [-20, 20]: the input delta, or 20 when that was above 20, or -20 when it
\* was below -20.
C7_DeltaClamped ==
    AffinitySanitized =>
      \A pos \in Surviving :
        /\ pos \in ChoicePositions(input)
        /\ IsSome(EffectAt(input, pos))
        /\ LET d_in == Unwrap(EffectAt(input, pos)).delta
               d == Unwrap(EffectAt(tpl, pos)).delta
           IN  /\ d >= -20 /\ d <= 20
               /\ d_in > 20 => d = 20
               /\ d_in < -20 => d = -20
               /\ (d_in >= -20 /\ d_in <= 20) => d = d_in

\* C7 witness: an effect survived whose input delta was above 20
C7_Witness ==
    /\ AffinitySanitized
    /\ \E pos \in Surviving :
         /\ Unwrap(EffectAt(input, pos)).delta > 20
         /\ Unwrap(EffectAt(tpl, pos)).delta = 20

\* x names the person called name in the cast: x is that name, or the id of
\* a cast entry with that name
Denotes(cast, x, name) ==
    \/ x = name
    \/ \E k \in DOMAIN cast :
         /\ Trim(cast[k].id) = x /\ x # ""
         /\ Trim(cast[k].name) = name /\ name # ""

\* the person called name is listed in the node's person list
Listed(cast, node, name) ==
    /\ IsSome(node.characters)
    /\ \E j \in 1..Len(Unwrap(node.characters)) :
         /\ Trim(Unwrap(node.characters)[j]) # ""
         /\ Denotes(cast, Trim(Unwrap(node.characters)[j]), name)

\* C8: after sanitize_affinity_effects every surviving effect on a choice of
\* node n has a target that is not blank, is not the protagonist name picked
\* from the cast, and is a person listed (by name or by id) in n's person
\* list; an effect with a blank target, and every other effect that does not
\* survive, is None.
C8_EffectTargets ==
    AffinitySanitized =>
      /\ \A pos \in Surviving :
           LET target == Unwrap(EffectAt(tpl, pos)).character_id
           IN  /\ Trim(target) # ""
               /\ picked # Some(target)
               /\ Listed(input.characters, input.nodes[pos[1]], target)
               /\ Denotes(input.characters,
                          Trim(Unwrap(EffectAt(input, pos)).character_id), target)
      /\ \A pos \in ChoicePositions(input) :
           /\ pos \in ChoicePositions(tpl)
           /\ IsSome(EffectAt(input, pos))
              /\ Trim(Unwrap(EffectAt(input, pos)).character_id) = ""
              => EffectAt(tpl, pos) = None
           /\ EffectAt(input, pos) = None => EffectAt(tpl, pos) = None

\* C8 witness: with a protagonist picked, an effect given by id survived
\* under the person's name
C8_Witness ==
    /\ AffinitySanitized
    /\ IsSome(picked)
    /\ \E pos \in Surviving :
         Unwrap(EffectAt(tpl, pos)).character_id
           # Trim(Unwrap(EffectAt(input, pos)).character_id)


\* C25: the protagonist picked, and with it the template that
\* sanitize_affinity_effects leaves, is the same for every order in which the
\* cast map can be iterated.
C25_ProtagonistReproducible ==
    (AffinitySanitized /\ DOMAIN input.nodes # {}) =>
      \A it \in Perms(DOMAIN input.characters) :
        /\ picked = PickProtagonistName(input.characters, it)
        /\ tpl = SanitizeAffinityEffects(input, it)

\* with at most one cast entry of the highest score the pick is the same
\* for every order
UniqueBestReproducible ==
    (/\ AffinitySanitized
     /\ DOMAIN input.nodes # {}
     /\ \E k \in DOMAIN input.characters :
          \A j \in DOMAIN input.characters \ {k} :
            Score(j, input.characters[j], Trim(input.characters[j].name))
              < Score(k, input.characters[k], Trim(input.characters[k].name)))
      => \A it \in Perms(DOMAIN input.characters) :
           picked = PickProtagonistName(input.characters, it)

----------------------------------------------------------------------------
(* Properties of the pipeline *)

\* what the claim compares of a node: its choices (text, target and effect)
\* and its ending_key
NodeStructure(node) == <<node.choices, node.ending_key>>

\* the node key set, every node's structure, the endings map and the cast map
\* of t and u are identical
SameStructure(t, u) ==
    /\ DOMAIN t.nodes = DOMAIN u.nodes
    /\ \A k \in DOMAIN t.nodes :
         NodeStructure(t.nodes[k]) = NodeStructure(u.nodes[k])
    /\ t.endings = u.endings
    /\ t.characters = u.characters

\* C9: running the pipeline a second time on its own output changes nothing:
\* after the second run the node key set, every node's choices, targets,
\* ending_key and effects, the endings map and the cast map are those of the
\* first run's output.
C9_Idempotent ==
    (op = "generate" /\ Done /\ run = 2) => SameStructure(tpl, first)


----------------------------------------------------------------------------
(* Properties of the request handlers *)

\* the stage has run in this request
Ran(stage) == \E i \in 1..(pc - 1) : Stages(op)[i] = stage

\* C11: in generate, import_template and update_template the stages run in
\* the mandatory order: when sanitize_template_graph is about to run,
\* normalize_template_nodes has run; when sanitize_affinity_effects is about
\* to run, sanitize_template_graph has run; when
\* enforce_character_consistency is about to run, sanitize_affinity_effects
\* has run.
C11_StageOrder ==
    op \in HandlerU =>
      /\ Stage = "sanitize_template_graph" => Ran("normalize_template_nodes")
      /\ Stage = "sanitize_affinity_effects" => Ran("sanitize_template_graph")
      /\ Stage = "enforce_character_consistency"
           => Ran("sanitize_affinity_effects")


\* the request has been handled
Handled == op \in HandlerU /\ Done

\* the cast entries of the arrived template whose id is not their name
ById(t) ==
    { k \in DOMAIN t.characters :
        /\ Trim(t.characters[k].id) # ""
        /\ Trim(t.characters[k].name) # ""
        /\ Trim(t.characters[k].id) # Trim(t.characters[k].name) }

\* C26: an effect that arrived with the id of a cast entry as its target, the
\* id differing from the entry's name, is dropped or carries the entry's name
\* when the handler is done, and it is dropped when that entry is the
\* protagonist.
C26_EffectByIdResolved ==
    Handled =>
      \A pos \in ChoicePositions(tpl) \cap ChoicePositions(input) :
        \A k \in ById(input) :
          (/\ IsSome(EffectAt(input, pos))
           /\ Trim(Unwrap(EffectAt(input, pos)).character_id)
                = Trim(input.characters[k].id))
            => /\ \/ EffectAt(tpl, pos) = None
                  \/ Unwrap(EffectAt(tpl, pos)).character_id
                       = Trim(input.characters[k].name)
               /\ picked = Some(Trim(input.characters[k].name))
                    => EffectAt(tpl, pos) = None

\* the entry nodes of the arrived template, under any spelling
EntryNodes(t) == DOMAIN t.nodes \cap EntrySpellings

\* the handled template has a node "start" with the content of an entry node
\* of the arrived one
EntryHeld ==
    /\ "start" \in DOMAIN tpl.nodes
    /\ \E e \in EntryNodes(input) :
         tpl.nodes["start"].content = input.nodes[e].content

\* C27: import_template and update_template never lose the entry node: if
\* the arrived template has a node keyed "start", "n_start" or "node_start",
\* the handled template has a node keyed "start" that holds its content.
C27_EntrySurvivesImport ==
    (Handled /\ EntryNodes(input) # {}) => EntryHeld

\* the same for the two spellings that duplicate collapse knows
KnownEntrySurvivesImport ==
    (Handled /\ EntryNodes(input) \cap {"start", "n_start"} # {}) => EntryHeld

----------------------------------------------------------------------------
(* Properties of normalize_template_nodes *)

NodesNormalized == op = "normalize_template_nodes" /\ Done

\* the output keys under which the node that arrived under old_key is stored
\* (the nodes of SpecNodes carry their arrival key as content)
KeysOf(old_key) ==
    { j \in DOMAIN tpl.nodes : tpl.nodes[j].content = old_key }

\* C12: normalize_template_nodes maps the input keys one-to-one onto the
\* output keys (no node lost or merged, same node count), and a choice whose
\* target was the old key of a node targets that node's new key afterwards.
C12_RenamingPreserves ==
    NodesNormalized =>
      /\ Cardinality(DOMAIN tpl.nodes) = Cardinality(DOMAIN input.nodes)
      /\ \A k \in DOMAIN input.nodes : Cardinality(KeysOf(k)) = 1
      /\ \A k \in DOMAIN input.nodes : \A j \in KeysOf(k) :
           /\ Len(tpl.nodes[j].choices) = Len(input.nodes[k].choices)
           /\ \A i \in 1..Len(input.nodes[k].choices) :
                LET target == input.nodes[k].choices[i].next_node_id
                IN  target \in DOMAIN input.nodes
                      => tpl.nodes[j].choices[i].next_node_id \in KeysOf(target)

\* C12 witness: a choice targeted a node that was renamed
C12_Witness ==
    /\ NodesNormalized
    /\ \E k \in DOMAIN input.nodes : \E i \in 1..Len(input.nodes[k].choices) :
         LET target == input.nodes[k].choices[i].next_node_id
         IN  /\ target \in DOMAIN input.nodes
             /\ target \notin KeysOf(target)
             /\ KeysOf(target) # {}

\* the form the claim gives a key before any suffix
ExpectedBase(k) ==
    CASE k \in {"start", "n_start", "node_start"} -> "start"
      [] k \in {"n_a", "node_a"}                  -> "a"
      [] OTHER                                    -> k

\* the suffixed forms that the keys of NodeKeyPool can need
SuffixForms == {<<"a", 2>>, <<"a", 3>>, <<"a", 4>>, <<"start", 2>>, <<"start", 3>>}

\* base for i = 1, base_i for a suffix i
WithSuffix(base, i) == IF i = 1 THEN base ELSE Suffixed(base, i)

\* the node that arrived under k is stored under base, or base_i for i > 1
StoredUnder(k, base, i) ==
    /\ i = 1 \/ <<base, i>> \in SuffixForms
    /\ KeysOf(k) = { WithSuffix(base, i) }

\* C13: after normalize_template_nodes a node that arrived under "start",
\* "n_start" or "node_start" is stored under "start", one under a key with
\* the prefix "n_" or "node_" under the stripped key, any other under its
\* key; a suffix _i is appended only when the form without it and the forms
\* with every smaller suffix went to keys that come earlier in
\* lexicographic order.
C13_KeyForms ==
    NodesNormalized =>
      \A k \in DOMAIN input.nodes :
        \E i \in 1..Cardinality(DOMAIN input.nodes) :
          /\ StoredUnder(k, ExpectedBase(k), i)
          /\ \A h \in 1..(i - 1) :
               \E e \in DOMAIN input.nodes :
                 /\ StrLess(e, k)
                 /\ WithSuffix(ExpectedBase(k), h) \in KeysOf(e)

\* C13 witness: a key got the suffix _3
C13_Witness ==
    /\ NodesNormalized
    /\ \E k \in DOMAIN input.nodes :
         StoredUnder(k, ExpectedBase(k), 3)

\* C14: after normalize_template_nodes every node's id equals the key under
\* which the node is stored.
C14_IdEqualsKey ==
    NodesNormalized => \A j \in DOMAIN tpl.nodes : tpl.nodes[j].id = j


\* the key is "start" or carries neither legacy prefix
Canonical(k) == k = "start" \/ StripPrefix(k) = k

\* the node that arrived under k is stored under k
KeptUnder(k) == k \in DOMAIN tpl.nodes /\ tpl.nodes[k].content = k

\* C30: a node whose key is already canonical keeps that key, also when the
\* stripped key of another node collides with it: the node that arrived
\* under a canonical key is stored under that key.
C30_CanonicalKept ==
    NodesNormalized =>
      \A k \in DOMAIN input.nodes : Canonical(k) => KeptUnder(k)

----------------------------------------------------------------------------
(* Properties of normalize_character_ids *)

CastNormalized == op = "normalize_character_ids" /\ Done

\* the key the claim gives the entry c that arrived under k
ExpectedCastKey(k, c) ==
    IF c.name # "" THEN c.name ELSE IF c.id # "" THEN c.id ELSE k

\* C15: after normalize_character_ids every cast entry is keyed by its name
\* when that is not empty, else by its previous id when that is not empty,
\* else by its previous key; every entry's id equals its key; and a second
\* run changes nothing.
C15_CastKeys ==
    CastNormalized =>
      /\ \A k \in DOMAIN tpl.characters :
           LET c == tpl.characters[k]
           IN  /\ c.id = k
               /\ c.role \in DOMAIN input.characters
               /\ c.name = input.characters[c.role].name
               /\ k = ExpectedCastKey(c.role, input.characters[c.role])
      /\ run = 2 => tpl = first

\* C15 witness: after the second run, with an entry keyed by its name and an
\* entry keyed by its previous id, both re-keyed
C15_Witness ==
    /\ CastNormalized
    /\ run = 2
    /\ \E k, j \in DOMAIN tpl.characters :
         /\ tpl.characters[k].name # "" /\ tpl.characters[k].role # k
         /\ tpl.characters[j].name = "" /\ tpl.characters[j].role # j

----------------------------------------------------------------------------
(* Properties of enforce_character_consistency *)

CastEnforced == op = "enforce_character_consistency" /\ Done

\* the trimmed non-blank names of the request's characters
AllowNames ==
    { Trim(Unwrap(allow)[i].name) : i \in 1..Len(Unwrap(allow)) } \ {""}

\* the names of the request's characters as they were sent
AllowSpellings == { Unwrap(allow)[i].name : i \in 1..Len(Unwrap(allow)) }

\* C19: after enforce_character_consistency with an allow-list the keys of
\* the cast are the trimmed non-blank names of the allow-list, every person
\* list holds only names of the allow-list (trimmed or as sent), none twice,
\* and is absent rather than empty; without an allow-list the template is
\* unchanged.
C19_CastConsistent ==
    CastEnforced =>
      IF allow = None THEN tpl = input
      ELSE /\ DOMAIN tpl.characters = AllowNames
           /\ \A k \in DOMAIN tpl.nodes :
                \/ tpl.nodes[k].characters = None
                \/ LET list == Unwrap(tpl.nodes[k].characters)
                   IN  /\ list # <<>>
                       /\ \A i \in 1..Len(list) :
                            list[i] \in AllowNames \cup AllowSpellings
                       /\ \A i, j \in 1..Len(list) :
                            i # j => list[i] # list[j]

\* the same with every kept entry read up to surrounding blanks: the
\* trimmed entries are allowed names, none twice
ConsistentUpToPadding ==
    CastEnforced =>
      IF allow = None THEN tpl = input
      ELSE /\ DOMAIN tpl.characters = AllowNames
           /\ \A k \in DOMAIN tpl.nodes :
                \/ tpl.nodes[k].characters = None
                \/ LET list == Unwrap(tpl.nodes[k].characters)
                   IN  /\ list # <<>>
                       /\ \A i \in 1..Len(list) : Trim(list[i]) \in AllowNames
                       /\ \A i, j \in 1..Len(list) :
                            i # j => Trim(list[i]) # Trim(list[j])

----------------------------------------------------------------------------
(* Properties of ensure_minimum_game_graph *)

\* what test_ensure_minimum_game_graph_when_empty and
\* test_ensure_minimum_game_graph_uses_request_protagonist_name assert, for
\* every input: after the call there is an entry node, an ending and a
\* language; a template that had no node and no ending has the node "start"
\* and three endings, and a request whose first character is_main names a
\* person of the node "start" and of the cast
MinimumGraphEnsured ==
    (op = "ensure_minimum_game_graph" /\ Done) =>
      /\ DOMAIN tpl.nodes \cap {"start", "n_start"} # {}
      /\ DOMAIN tpl.endings # {}
      /\ tpl.meta.language # ""
      /\ (input.meta.language = "" => tpl.meta.language \in {"zh-CN", "ja"})
      /\ (DOMAIN input.nodes = {} /\ DOMAIN input.endings = {}) =>
           /\ "start" \in DOMAIN tpl.nodes
           /\ Cardinality(DOMAIN tpl.endings) >= 3
      /\ (DOMAIN input.nodes = {} /\ allow # None /\ Unwrap(allow) # <<>>
            /\ Unwrap(allow)[1].is_main) =>
           /\ \E i \in 1..Len(Unwrap(tpl.nodes["start"].characters)) :
                Unwrap(tpl.nodes["start"].characters)[i] = Unwrap(allow)[1].name
           /\ \E k \in DOMAIN tpl.characters :
                tpl.characters[k].name = Unwrap(allow)[1].name

----------------------------------------------------------------------------
(* Properties of the stages taken step by step *)

StepsDone == op = "generate" /\ Done

\* no node has been entered by dfs more than once
EnteredOnce == \A k \in DOMAIN work.entered : work.entered[k] <= 1

\* the while loop has made at most one try for every key assigned so far
TriesBounded == work.tries <= Cardinality(work.used)

\* the step-by-step run computes what the stages compute in one step
StepsAgree ==
    /\ (Stage = "normalize_template_nodes" /\ work.loop = "keys"
          /\ work.keys = <<>>) =>
         work.mapping = KeyMapping(SortKeys(DOMAIN tpl.nodes), {}, EmptyMap)
    /\ (Stage = "sanitize_template_graph" /\ work.loop = "collect"
          /\ work.keys = <<>>) =>
         work.redirect = Redirect(tpl)
    /\ (Stage = "sanitize_template_graph" /\ work.loop = "dfs"
          /\ work.stack = <<>> /\ work.node_ids = <<>>) =>
         \E ord \in Perms(DOMAIN Redirect(tpl)) :
           work.nodes = PassB(PassA(tpl.nodes, Redirect(tpl), ord),
                              EndingNeutralKey(tpl))

\* C20: the stages, run in order on any template, come to an end; on
\* the way dfs enters no node twice and the suffix search makes no more
\* tries than there are keys assigned before it.
C20_Terminates == (<>StepsDone) /\ [](EnteredOnce /\ TriesBounded)

\* C20 witness: the run has ended on a template for which the suffix search
\* took two tries for one key and the traversal, having entered every node,
\* rewrote both a self-loop and a back edge.
C20_Witness ==
    /\ StepsDone
    /\ work.max_tries >= 2
    /\ work.rewrites >= 2
    /\ \A k \in DOMAIN work.entered : work.entered[k] = 1
    /\ \E k \in DOMAIN input.nodes : k \in Targets(input.nodes[k])
    /\ \E j, k \in DOMAIN input.nodes :
         /\ j # k
         /\ k \in Targets(input.nodes[j])
         /\ j \in Targets(input.nodes[k])

----------------------------------------------------------------------------
(* Properties of the passes of sanitize_template_graph *)

PassesDone == op = "sanitize_passes" /\ Done

\* the three passes in a row give what sanitize_template_graph gives
PassesAgree == (PassesDone /\ run = 1) => tpl \in SanitizeOutcomes(input)

\* C21: sanitize_template_graph run on its own output removes no node and
\* changes no choice list, choice target or ending_key.
C21_SanitizeIdempotent ==
    (PassesDone /\ run = 2) => SameStructure(tpl, first)

\* Pass A of the first run has just ended: tpl is what it left of input
AfterCollapse == op = "sanitize_passes" /\ run = 1 /\ work.pass = "B"

EntryKeys(t) == DOMAIN t.nodes \cap {"start", "n_start"}

\* the entry node is kept by duplicate collapse
EntryKept == AfterCollapse => EntryKeys(input) \subseteq DOMAIN tpl.nodes

\* C23: duplicate collapse keeps the entry node, removes every other node
\* whose signature equals the entry node's, and redirects to the entry node
\* every choice that targeted such a node.
C23_EntryOwner ==
    AfterCollapse =>
      \A e \in EntryKeys(input) :
        /\ e \in DOMAIN tpl.nodes
        /\ \A k \in NonEntry(input) :
             SameSignature(input, e, k) =>
               /\ k \notin DOMAIN tpl.nodes
               /\ \A j \in DOMAIN tpl.nodes :
                    \A i \in 1..Len(input.nodes[j].choices) :
                      input.nodes[j].choices[i].next_node_id = k =>
                        tpl.nodes[j].choices[i].next_node_id = e

\* C18: when duplicate collapse has run, of each group of non-entry nodes
\* with equal signatures only the first in lexicographic key order is left;
\* every choice whose target was the key of a removed node targets the
\* owner of that node; an owner that had no ending_key carries the
\* ending_key of a removed duplicate of its group that had one, and an owner
\* that had an ending_key has it still.
C18_DuplicateCollapse ==
    AfterCollapse =>
      LET owner == Owners(input)
          removed == Removed(input)
      IN  /\ DOMAIN tpl.nodes = DOMAIN input.nodes \ removed
          /\ \A k \in DOMAIN tpl.nodes :
               /\ Len(tpl.nodes[k].choices) = Len(input.nodes[k].choices)
               /\ \A i \in 1..Len(tpl.nodes[k].choices) :
                    LET old == input.nodes[k].choices[i].next_node_id
                    IN  old \in removed =>
                          tpl.nodes[k].choices[i].next_node_id = owner[old]
          /\ \A o \in { owner[d] : d \in removed } :
               CollapseMarkers(input, o) # {} =>
                 tpl.nodes[o].ending_key \in CollapseMarkers(input, o)

\* C18 witness: duplicate collapse removed a node that had an ending_key; a
\* choice of a third node that targeted it targets the owner, and the owner,
\* which had no ending_key, carries the duplicate's.
C18_Witness ==
    /\ AfterCollapse
    /\ \E d \in Removed(input) :
         LET o == Owners(input)[d]
         IN  /\ IsSome(input.nodes[d].ending_key)
             /\ input.nodes[o].ending_key = None
             /\ tpl.nodes[o].ending_key = input.nodes[d].ending_key
             /\ \E k \in DOMAIN tpl.nodes \ {o} :
                  \E i \in 1..Len(tpl.nodes[k].choices) :
                    /\ input.nodes[k].choices[i].next_node_id = d
                    /\ tpl.nodes[k].choices[i].next_node_id = o

\* the ending_key of node k before and after the marker assignment: the
\* traversal and the steps of Pass C before the assignment leave it alone
MarkerBefore(k) == work.before[k].ending_key

MarkerAfter(k) == tpl.nodes[k].ending_key

\* C24: the last step gives a node that has no choices and no valid
\* ending_key the marker "ending_neutral" when that ending exists; it assigns
\* no other marker, and without a neutral ending it leaves every ending_key
\* as it was.
C24_NeutralMarkerOnly ==
    PassesDone =>
      \A k \in DOMAIN tpl.nodes :
        /\ (/\ "ending_neutral" \in DOMAIN tpl.endings
            /\ tpl.nodes[k].choices = <<>>
            /\ ~ValidMarker(work.before[k], DOMAIN tpl.endings))
             => MarkerAfter(k) = Some("ending_neutral")
        /\ MarkerAfter(k) # MarkerBefore(k) =>
             MarkerAfter(k) = Some("ending_neutral")
        /\ "ending_neutral" \notin DOMAIN tpl.endings =>
             MarkerAfter(k) = MarkerBefore(k)

\* what holds of the last step: the marker assigned is ending_neutral_key,
\* which is "ending_bad" or "ending_good" when there is no neutral ending
MarkerIsFallback ==
    PassesDone =>
      \A k \in DOMAIN tpl.nodes :
        MarkerAfter(k) # MarkerBefore(k) =>
          /\ MarkerAfter(k) = Some(EndingNeutralKey(tpl))
          /\ tpl.nodes[k].choices = <<>>
          /\ ~ValidMarker(work.before[k], DOMAIN tpl.endings)

\* Pass B has just ended: work.before is what it found, tpl what it left
AfterTraversal == op = "sanitize_passes" /\ work.pass = "C"

\* the nodes that following choices from the entry node leads to, the entry
\* node included; none without an entry node
FromEntry(nodes) ==
    IF "start" \in DOMAIN nodes THEN ReachableFrom(nodes, {"start"}, {})
    ELSE IF "n_start" \in DOMAIN nodes THEN ReachableFrom(nodes, {"n_start"}, {})
    ELSE {}

\* the choices that Pass B rewrote, as <<node key, index>>
Rewritten ==
    { pos \in ChoicePositions([nodes |-> work.before]) :
        tpl.nodes[pos[1]].choices[pos[2]].next_node_id
          # work.before[pos[1]].choices[pos[2]].next_node_id }

\* C28: every node that could be reached from the entry node before Pass B
\* can be reached from it right after Pass B.
C28_NoOrphans ==
    AfterTraversal => FromEntry(work.before) \subseteq FromEntry(tpl.nodes)

\* C28 witness: Pass B has rewritten a back edge, not a self-loop, of a graph
\* in which the entry node reaches three nodes.
C28_Witness ==
    /\ AfterTraversal
    /\ Cardinality(FromEntry(work.before)) = 3
    /\ \E pos \in Rewritten :
         /\ work.before[pos[1]].choices[pos[2]].next_node_id # pos[1]
         /\ pos[1] \in FromEntry(work.before)

\* Pass B rewrites only choices that target a node
OnlyNodeTargetsRewritten ==
    AfterTraversal =>
      \A pos \in Rewritten :
        work.before[pos[1]].choices[pos[2]].next_node_id \in DOMAIN work.before

\* t has no structural defect: no two nodes of one signature, no cycle and
\* no self-loop, every target a node key or an ending key as it stands, and
\* every node without choices exactly when its ending_key names an ending
StructurallyValid(t) ==
    /\ \A j, k \in DOMAIN t.nodes : j # k => ~SameSignature(t, j, k)
    /\ \A k \in DOMAIN t.nodes : ~OnCycle(t.nodes, k)
    /\ \A k \in DOMAIN t.nodes :
         Targets(t.nodes[k]) \subseteq DOMAIN t.nodes \cup DOMAIN t.endings
    /\ \A k \in DOMAIN t.nodes :
         (t.nodes[k].choices = <<>>) <=> ValidMarker(t.nodes[k], DOMAIN t.endings)

\* C29: sanitize_template_graph leaves a structurally valid graph as it is:
\* the same nodes, each with the choices and the ending_key it had.
C29_ValidUnchanged ==
    (PassesDone /\ run = 1 /\ StructurallyValid(input)) =>
      SameStructure(tpl, input)

\* the same for graphs whose node keys carry no white space around them
TrimmedValidUnchanged ==
    (/\ PassesDone /\ run = 1 /\ StructurallyValid(input)
     /\ \A k \in DOMAIN input.nodes : Trim(k) = k)
      => SameStructure(tpl, input)

----------------------------------------------------------------------------
(* Properties of normalize_template_nodes run twice *)

\* C22: normalize_template_nodes run on its own output renames no key and
\* rewrites no choice target: the second run leaves every node under the key
\* and with the choices the first run gave it.
C22_NodesIdempotent ==
    (NodesNormalized /\ run = 2) =>
      /\ DOMAIN tpl.nodes = DOMAIN first.nodes
      /\ \A k \in DOMAIN first.nodes :
           /\ tpl.nodes[k].content = first.nodes[k].content
           /\ tpl.nodes[k].choices = first.nodes[k].choices

=============================================================================
